---------------------------- MODULE Spec2Model ----------------------------
(***************************************************************************)
(* Kostal battery manager: the control loop (controller_loop), the        *)
(* operator endpoints of the Flask application, the charging-plan         *)
(* recomputation and the rule evaluation of TibberOptimizer, together     *)
(* with the inverter they drive.                                          *)
(*                                                                         *)
(* Time is counted in seconds.  Python's None is the empty sequence, a    *)
(* present value x is <<x>> where an option is stored (an ISO timestamp   *)
(* string is <<t>>, so fromisoformat takes it apart again).               *)
(***************************************************************************)
EXTENDS Integers, Sequences, FiniteSets, TLC

VARIABLES
    now,                        \* the wall clock, datetime.now()
    controller_running,         \* app_state['controller_running']
    battery_soc,                \* app_state['battery']['soc']
    mode,                       \* app_state['inverter']['mode']
    control_mode,               \* app_state['inverter']['control_mode']
    charging_plan,              \* app_state['charging_plan']
    auto_optimization_enabled,  \* config['auto_optimization_enabled']
    inverter,                   \* the inverter itself: ExternControl and the setpoint register
    loop,                       \* the controller_loop thread: position and locals
    req,                        \* the HTTP thread serving /api/control: position, locals, calls made
    reader,                     \* the HTTP thread serving /api/charging_status
    ucp,                        \* update_charging_plan frames, one per calling thread
    obs,                        \* what has been observed of the run (history)
    fcall,                      \* a function called on its own: arguments and what it returned
    hourly_consumption,         \* the rows of the table hourly_consumption
    kostal_api                  \* the KostalAPI object, the session file and the call in progress

vars == <<now, controller_running, battery_soc, mode, control_mode, charging_plan,
          auto_optimization_enabled, inverter, loop, req, reader, ucp, obs, fcall,
          hourly_consumption, kostal_api>>

-----------------------------------------------------------------------------
(* Configuration defaults (load_config) and constants of the code *)

max_charge_power == 3900
auto_charge_below_soc == 95
auto_safety_soc == 20
auto_pv_threshold == 5
tibber_price_threshold_1h == 8
tibber_price_threshold_3h == 8
charge_duration_per_10_percent == 18
plan_update_interval == 300
control_interval == 30
pv_hardcoded_threshold == 5

(* Bounds of the model *)

\* the clock stops advancing here
MaxNow == 3600
\* the time that passes between two ticks, when any passes
ClockStep == 3600
\* the recomputations of the plan that are told apart (later ones count as the last)
MaxRecalc == 1

None == <<>>
Some(x) == <<x>>

\* datetime.isoformat() and datetime.fromisoformat()
isoformat(t) == <<t>>
fromisoformat(s) == s[1]

Abs(x) == IF x < 0 THEN -x ELSE x


-----------------------------------------------------------------------------
(* Telemetry: HomeAssistantClient *)

\* A state string of a Home Assistant entity, or Python's None (tag "none")
NoneState == [tag |-> "none", v |-> 0]
TextState(word) == [tag |-> word, v |-> 0]
NumState(n) == [tag |-> "num", v |-> n]

\* HomeAssistantClient.get_state: the state of a 200 response, None otherwise
get_state(response) ==
    IF response.status = 200 THEN response.state ELSE NoneState

\* Python float() of a state string: defined on numeric text only,
\* float("unknown") raises ValueError
float_ok(s) == s.tag = "num"
float(s) == s.v

\* `x or 0` (controller_loop, the SoC read)
or_zero(s) == IF s.tag = "none" THEN NumState(0) ELSE s

\* `if remaining and remaining not in ['unknown', 'unavailable']`
has_data(s) == s.tag \notin {"none", "unknown", "unavailable"}

\* the sum over both roofs of the remaining PV forecast
pv_remaining_sum(r1, r2) ==
    (IF has_data(get_state(r1)) THEN float(get_state(r1)) ELSE 0)
  + (IF has_data(get_state(r2)) THEN float(get_state(r2)) ELSE 0)

StateResponses(values) ==
    {[status |-> 503, state |-> NoneState]}
    \cup {[status |-> 200, state |-> TextState(w)] : w \in {"unknown", "unavailable"}}
    \cup {[status |-> 200, state |-> NumState(n)] : n \in values}

\* what the SoC sensor may answer
SocResponses == StateResponses({10, 60})
\* what one roof's remaining-today sensor may answer
PvResponses ==
    {[status |-> 503, state |-> NoneState],
     [status |-> 200, state |-> TextState("unavailable")],
     [status |-> 200, state |-> NumState(3)]}

-----------------------------------------------------------------------------
(* TibberOptimizer *)

\* prices[i] with Python's 0-based index
At(prices, i) == prices[i + 1]

\* a startsAt string that fromisoformat rejects (ValueError)
BadText == <<0, 0>>

\* the scan left find_optimal_charge_end_time with an exception that its
\* `except (KeyError, ValueError, TypeError)` does not catch
Raised == <<0, 0, 0>>

\* a rise by the threshold without the division by 100 of __init__
price_rises_undivided(current_price, price_1h_ago, threshold_1h) ==
    current_price > price_1h_ago * (1 + threshold_1h)

\* a rise that also counts an unchanged price
price_rises_or_stays(current_price, price_1h_ago, threshold_1h) ==
    100 * current_price >= price_1h_ago * (100 + threshold_1h)

\* the comparison of the 3 h blocks the other way round
block_cheaper(sum_3h_past, sum_3h_future, threshold_3h) ==
    100 * sum_3h_past > sum_3h_future * (100 + threshold_3h)

\* condition_1, with threshold_1h = percent / 100 (lines 19, 65)
price_rises(current_price, price_1h_ago, threshold_1h) ==
    100 * current_price > price_1h_ago * (100 + threshold_1h)

\* condition_2, with threshold_3h = percent / 100 (lines 20, 68)
block_dearer(sum_3h_past, sum_3h_future, threshold_3h) ==
    100 * sum_3h_past < sum_3h_future * (100 + threshold_3h)

\* starts_at_str.replace(...) on a startsAt that is no string (JSON null):
\* AttributeError, which leaves the loop and the function
raises(prices, i) == At(prices, i).startsAt = None

\* one iteration of the scan at index i ends in `return starts_at`: startsAt
\* parses and lies in the future, the five prices convert, both conditions hold
qualifies(prices, i, t, threshold_1h, threshold_3h) ==
    /\ At(prices, i).startsAt # None
    /\ At(prices, i).startsAt # BadText
    /\ ~(fromisoformat(At(prices, i).startsAt) <= t)
    /\ \A k \in {i - 2, i - 1, i, i + 1, i + 2} : At(prices, k).total # None
    /\ LET current_price == At(prices, i).total[1]
           price_1h_ago == At(prices, i - 1).total[1]
           price_2h_ago == At(prices, i - 2).total[1]
           price_1h_future == At(prices, i + 1).total[1]
           price_2h_future == At(prices, i + 2).total[1]
           sum_3h_past == current_price + price_1h_ago + price_2h_ago
           sum_3h_future == current_price + price_1h_future + price_2h_future
           condition_1 == price_rises(current_price, price_1h_ago, threshold_1h)
           condition_2 == block_dearer(sum_3h_past, sum_3h_future, threshold_3h)
       IN  condition_1 /\ condition_2

\* `for i in range(i, len(prices) - 2)`
RECURSIVE scan_from(_, _, _, _, _)
scan_from(prices, i, t, threshold_1h, threshold_3h) ==
    IF i >= Len(prices) - 2 THEN None
    ELSE IF raises(prices, i) THEN Raised
    ELSE IF qualifies(prices, i, t, threshold_1h, threshold_3h)
    THEN Some(fromisoformat(At(prices, i).startsAt))
    ELSE scan_from(prices, i + 1, t, threshold_1h, threshold_3h)

\* a scan that begins one index earlier
find_scanning_from_two(prices, t, threshold_1h, threshold_3h) ==
    IF Len(prices) < 6 THEN None ELSE scan_from(prices, 2, t, threshold_1h, threshold_3h)

\* find_optimal_charge_end_time of an optimizer built with the two thresholds
\* (in percent), at time t: the end of charging, None, or Raised
find_optimal_charge_end(prices, t, threshold_1h, threshold_3h) ==
    IF Len(prices) < 6 THEN None ELSE scan_from(prices, 3, t, threshold_1h, threshold_3h)

\* find_optimal_charge_end_time(prices) of the optimizer app.py builds from config
find_optimal_charge_end_time(prices, t) ==
    find_optimal_charge_end(prices, t, tibber_price_threshold_1h, tibber_price_threshold_3h)

\* calculate_charge_start_time: (soc_diff / 10) * charge_duration_per_10 minutes,
\* in seconds, before charge_end
calculate_charge_start_time(charge_end, current_soc, target_soc) ==
    LET soc_diff == target_soc - current_soc
    IN  IF soc_diff <= 0 THEN charge_end
        ELSE charge_end - (soc_diff * charge_duration_per_10_percent * 60) \div 10

\* the rules without the safety rule
should_charge_without_safety(planned_start, current_soc, min_soc, max_soc, pv_remaining, t) ==
    IF current_soc >= max_soc THEN [charge |-> FALSE, reason |-> "full"]
    ELSE IF pv_remaining > pv_hardcoded_threshold
         THEN [charge |-> FALSE, reason |-> "pv_sufficient"]
    ELSE IF planned_start # None /\ t >= planned_start[1]
         THEN [charge |-> TRUE, reason |-> "planned"]
    ELSE [charge |-> FALSE, reason |-> "waiting"]

\* the rules with the full rule tried before the safety rule
should_charge_full_first(planned_start, current_soc, min_soc, max_soc, pv_remaining, t) ==
    IF current_soc >= max_soc THEN [charge |-> FALSE, reason |-> "full"]
    ELSE IF current_soc < min_soc THEN [charge |-> TRUE, reason |-> "safety"]
    ELSE IF pv_remaining > pv_hardcoded_threshold
         THEN [charge |-> FALSE, reason |-> "pv_sufficient"]
    ELSE IF planned_start # None /\ t >= planned_start[1]
         THEN [charge |-> TRUE, reason |-> "planned"]
    ELSE [charge |-> FALSE, reason |-> "waiting"]

\* should_charge_now at time t; planned_start is None or <<time>>
should_charge_now(planned_start, current_soc, min_soc, max_soc, pv_remaining, t) ==
    IF current_soc < min_soc THEN [charge |-> TRUE, reason |-> "safety"]
    ELSE IF current_soc >= max_soc THEN [charge |-> FALSE, reason |-> "full"]
    ELSE IF pv_remaining > pv_hardcoded_threshold
         THEN [charge |-> FALSE, reason |-> "pv_sufficient"]
    ELSE IF planned_start # None /\ t >= planned_start[1]
         THEN [charge |-> TRUE, reason |-> "planned"]
    ELSE [charge |-> FALSE, reason |-> "waiting"]

-----------------------------------------------------------------------------
(* The inverter: KostalAPI.set_external_control and ModbusClient.write_battery_power *)

ExternalControl(enabled) == [fn |-> "set_external_control", enabled |-> enabled, watts |-> 0]
WriteBatteryPower(watts) == [fn |-> "write_battery_power", enabled |-> FALSE, watts |-> watts]

\* How a call can end.  set_external_control: the PUT /settings answered 200;
\* _ensure_authenticated failed (login returned False); the request failed.
\* write_battery_power: the register was written, or it was not.
Outcomes(call) ==
    IF call.fn = "set_external_control" THEN {"ok", "auth_failed", "http_error"}
    ELSE {"ok", "failed"}

\* set_external_control: Battery:ExternControl is "2" or "0" after a 200
set_external_control(inv, enabled, outcome) ==
    IF outcome = "ok" THEN [inv EXCEPT !.extern = enabled] ELSE inv

\* write_battery_power: the setpoint register holds watts after a success
write_battery_power(inv, watts, outcome) ==
    IF outcome = "ok" THEN [inv EXCEPT !.setpoint = watts] ELSE inv

perform(inv, call, outcome) ==
    IF call.fn = "set_external_control"
    THEN set_external_control(inv, call.enabled, outcome)
    ELSE write_battery_power(inv, call.watts, outcome)

Logged(call, outcome) ==
    [fn |-> call.fn, enabled |-> call.enabled, watts |-> call.watts, outcome |-> outcome]

\* the ways a sequence of calls can end, one outcome per call
OutcomeSeqs(calls) ==
    {os \in [1..Len(calls) -> {"ok", "auth_failed", "http_error", "failed"}] :
        \A i \in 1..Len(calls) : os[i] \in Outcomes(calls[i])}

\* the inverter after the calls from the i-th on, issued one after the other
RECURSIVE run_from(_, _, _, _)
run_from(inv, calls, outcomes, i) ==
    IF i > Len(calls) THEN inv
    ELSE run_from(perform(inv, calls[i], outcomes[i]), calls, outcomes, i + 1)

run_calls(inv, calls, outcomes) == run_from(inv, calls, outcomes, 1)
log_calls(calls, outcomes) == [i \in 1..Len(calls) |-> Logged(calls[i], outcomes[i])]

\* controller_loop, line 1101: charge_power = -config['max_charge_power']
auto_charge_power(configured_power) == 0 - configured_power
\* api_control, line 437, and api_adjust_power, line 582: -abs(int(power))
manual_charge_power(requested_power) == 0 - Abs(requested_power)

\* the entry calls with the setpoint written first
SetpointBeforeEnable ==
    <<WriteBatteryPower(auto_charge_power(max_charge_power)), ExternalControl(TRUE)>>

\* controller_loop, entry to charging: the calls in the order issued
AutoStartCalls ==
    <<ExternalControl(TRUE), WriteBatteryPower(auto_charge_power(max_charge_power))>>
\* controller_loop, exit from charging
AutoStopCalls == <<WriteBatteryPower(0), ExternalControl(FALSE)>>
\* api_control, start_charging
ManualStartCalls(requested_power) ==
    <<ExternalControl(TRUE), WriteBatteryPower(manual_charge_power(requested_power))>>
\* api_control, stop_charging
ManualStopCalls == <<WriteBatteryPower(0), ExternalControl(FALSE)>>

ChargingModes == {"manual_charging", "auto_charging"}

-----------------------------------------------------------------------------
(* update_charging_plan *)

\* sample k (0-based) of the price sensor starts at hour k - 2 of the clock
Sample(k, total) == [startsAt |-> isoformat((k - 2) * 3600), total |-> Some(total)]
Curve(totals) == [k \in 1..Len(totals) |-> Sample(k - 1, totals[k])]

RisingCurve == Curve(<<10, 10, 10, 10, 20, 20, 20>>)
FlatCurve == Curve(<<10, 10, 10, 10, 10, 10, 10>>)

PriceData(today, tomorrow) ==
    [status |-> 200, has_attributes |-> TRUE, today |-> today, tomorrow |-> tomorrow]

\* what get_state_with_attributes(tibber_sensor) may answer
PriceResponses ==
    {[status |-> 503, has_attributes |-> FALSE, today |-> <<>>, tomorrow |-> <<>>],
     [status |-> 200, has_attributes |-> FALSE, today |-> <<>>, tomorrow |-> <<>>],
     PriceData(<<>>, <<>>),
     PriceData(SubSeq(RisingCurve, 1, 4), SubSeq(RisingCurve, 5, 7)),
     PriceData(FlatCurve, <<>>)}

\* the prerequisites of update_charging_plan: data, attributes, a price list
prices_available(response) ==
    /\ response.status = 200
    /\ response.has_attributes
    /\ response.today \o response.tomorrow # <<>>

\* charge_end of update_charging_plan: None when the prerequisites fail or the
\* optimizer finds no end, Raised when the optimizer raises (the except of
\* line 894 then leaves the plan as it is)
charge_end_of(response, t) ==
    IF prices_available(response)
    THEN find_optimal_charge_end_time(response.today \o response.tomorrow, t)
    ELSE None

\* the plan update_charging_plan leaves behind at time t, given the stored SoC
updated_plan(plan, response, soc, t) ==
    LET charge_end == charge_end_of(response, t)
    IN  IF ~prices_available(response) THEN plan
        ELSE IF charge_end = Raised THEN plan
        ELSE IF charge_end # None
        THEN [planned_start |-> isoformat(calculate_charge_start_time(
                                   charge_end[1], soc, auto_charge_below_soc)),
              planned_end |-> isoformat(charge_end[1]),
              last_calculated |-> isoformat(t),
              target_soc |-> Some(auto_charge_below_soc)]
        ELSE [plan EXCEPT !.last_calculated = isoformat(t)]

-----------------------------------------------------------------------------
(* controller_loop: the decisions of one tick *)

\* a plan refresh that is due only from the interval on
plan_due_at_interval(last_plan_update, t) ==
    last_plan_update = None \/ t - last_plan_update[1] >= plan_update_interval

\* lines 1037-1038: the plan is recomputed when it is older than the interval
plan_due(last_plan_update, t) ==
    last_plan_update = None \/ t - last_plan_update[1] > plan_update_interval

\* a gate that looks at the running switch only
running_only(running, enabled) == running

\* a stop that does not look at who started the charge
stop_any_charge(should_charge, m) ==
    ~should_charge /\ m \in {"manual_charging", "auto_charging"}

\* line 1064: both switches must be on for the rules to run
automation_on(running, enabled) == running /\ enabled

\* line 1098: start automatic charging
start_branch(should_charge, m) == should_charge /\ m \notin ChargingModes
\* line 1107: stop automatic charging
stop_branch(should_charge, m) == ~should_charge /\ m = "auto_charging"

\* the branch of the tick for a decision and the mode found in app_state
branch(should_charge, m) ==
    IF start_branch(should_charge, m) THEN "start"
    ELSE IF stop_branch(should_charge, m) THEN "stop"
    ELSE "sleep"

branch_calls(to) ==
    IF to = "start" THEN AutoStartCalls
    ELSE IF to = "stop" THEN AutoStopCalls
    ELSE <<>>

\* lines 1069-1095: the decision of the rules for the sensor answers of the tick
tick_decision(soc_text, roof1, roof2, plan, t) ==
    should_charge_now(
        IF plan.planned_start # None THEN Some(fromisoformat(plan.planned_start)) ELSE None,
        float(soc_text), auto_safety_soc, auto_charge_below_soc,
        pv_remaining_sum(roof1, roof2), t)

\* the mode and control_mode recorded after the calls of a branch
recorded_mode(to) == IF to = "start" THEN "auto_charging" ELSE "automatic"
recorded_control(to) == IF to = "start" THEN "external" ELSE "internal"

-----------------------------------------------------------------------------
(* Initial state: app_state and config as constructed, the loop thread about
   to run its startup recomputation, no request in flight *)

Threads == {"loop", "http"}

IdleFrame == [pc |-> "idle", charge_start |-> 0, charge_end |-> 0, gen |-> 0]

IdleReq == [kind |-> "none", pc |-> "idle", power |-> 0, todo |-> <<>>, calls |-> <<>>]

NoGens == [planned_start |-> 0, planned_end |-> 0, target_soc |-> 0]

IdleReader == [pc |-> "idle", planned_start |-> None, planned_end |-> None,
               target_soc |-> None, gens |-> NoGens, error |-> FALSE]

\* what is remembered of the last tick, until another operation runs
NoTick == [sensor |-> NoneState, evaluated |-> FALSE,
           should_charge |-> FALSE, mode_before |-> "none", control_before |-> "none"]

\* no function is called on its own
NoCall == [fn |-> "none"]

\* KostalAPI.__init__: no session, no headers; no call in progress.  sent
\* holds the requests of the call in progress or last made, each with its answer.
NoSession ==
    [pc |-> "idle", session_id |-> None, headers |-> None, session_file |-> None,
     enabled |-> FALSE, sent |-> <<>>, logins |-> 0, login |-> "none",
     before |-> [session_id |-> None, headers |-> None, session_file |-> None],
     result |-> "none", issued |-> 0]

\* app_state, config and the threads as constructed
Constructed ==
    /\ now = 0
    /\ controller_running = TRUE
    /\ battery_soc = 0
    /\ mode = "automatic"
    /\ control_mode = "internal"
    /\ charging_plan = [planned_start |-> None, planned_end |-> None,
                        last_calculated |-> None, target_soc |-> None]
    /\ auto_optimization_enabled = TRUE
    /\ inverter = [extern |-> FALSE, setpoint |-> 0]
    /\ loop = [pc |-> "startup", last_plan_update |-> None, to |-> "none",
               todo |-> <<>>, calls |-> <<>>]
    /\ req = IdleReq
    /\ reader = IdleReader
    /\ ucp = [t \in Threads |-> IdleFrame]
    /\ obs = [tick |-> NoTick,
              gens |-> NoGens,
              recalcs |-> 0,
              started |-> None]
    /\ hourly_consumption = {}
    /\ kostal_api = NoSession

Init == Constructed /\ fcall = NoCall

-----------------------------------------------------------------------------
(* The operations, each as one step: the loop thread and the HTTP handlers
   run one after the other *)

\* the generation the next stored plan gets
NextGen == IF obs.recalcs < MaxRecalc THEN obs.recalcs + 1 ELSE MaxRecalc

\* controller_loop before the loop: update_charging_plan(), last_plan_update = now
Startup ==
    /\ loop.pc = "startup"
    /\ \E response \in PriceResponses :
         charging_plan' = updated_plan(charging_plan, response, battery_soc, now)
    /\ loop' = [loop EXCEPT !.pc = "tick", !.last_plan_update = Some(now)]
    /\ UNCHANGED <<now, controller_running, battery_soc, mode, control_mode,
                   auto_optimization_enabled, inverter, req, reader, ucp, obs, fcall,
                   hourly_consumption, kostal_api>>

\* the answers to a request: one placeholder when the request is not sent
Asked(sent, responses) == IF sent THEN responses ELSE {CHOOSE r \in responses : TRUE}

\* lines 1064-1072: the tick gets past the SoC read to the PV sensors
SocRead(soc) ==
    /\ automation_on(controller_running, auto_optimization_enabled)
    /\ float_ok(or_zero(get_state(soc)))

\* the branch a tick takes for the sensor answers, the plan and the mode it finds
tick_branch(soc, roof1, roof2, plan) ==
    IF SocRead(soc)
    THEN branch(tick_decision(or_zero(get_state(soc)), roof1, roof2, plan, now).charge, mode)
    ELSE "sleep"

\* line 1119: the clock when time.sleep(control_interval) returns
SleptTill(max_now) == {now} \cup {t \in {now + ClockStep} : t <= max_now}

Slept == SleptTill(MaxNow)

\* lines 1064-1119: gate, SoC read, rules, calls, recorded mode and the sleep;
\* `due`, `plan` and `seen` are what the plan refresh of the tick did.  (The
\* consumption recording of lines 1042-1062 touches none of this state.)
RulesTill(due, plan, seen, soc_responses, max_now) ==
    \E soc \in soc_responses :
    \E roof1 \in Asked(SocRead(soc), PvResponses),
       roof2 \in Asked(SocRead(soc), PvResponses) :
      LET gate == automation_on(controller_running, auto_optimization_enabled)
          text == or_zero(get_state(soc))
          decided == gate /\ float_ok(text)
          decision == tick_decision(text, roof1, roof2, plan, now)
          to == tick_branch(soc, roof1, roof2, plan)
          calls == branch_calls(to)
      IN  /\ battery_soc' = IF decided THEN float(text) ELSE battery_soc
          /\ \E outcomes \in OutcomeSeqs(calls) :
               /\ inverter' = run_calls(inverter, calls, outcomes)
               /\ loop' = [loop EXCEPT
                             !.pc = "tick",
                             !.last_plan_update = IF due THEN Some(now) ELSE @,
                             !.to = to,
                             !.calls = log_calls(calls, outcomes)]
          /\ mode' = IF to = "sleep" THEN mode ELSE recorded_mode(to)
          /\ control_mode' = IF to = "sleep" THEN control_mode ELSE recorded_control(to)
          /\ obs' = [seen EXCEPT
                       !.tick = [sensor |-> get_state(soc),
                                 evaluated |-> decided,
                                 should_charge |-> decided /\ decision.charge,
                                 mode_before |-> mode,
                                 control_before |-> control_mode]]
          /\ now' \in SleptTill(max_now)

RulesOf(due, plan, seen, soc_responses) ==
    RulesTill(due, plan, seen, soc_responses, MaxNow)

Rules(due, plan, seen) == RulesOf(due, plan, seen, SocResponses)

\* one iteration of `while True`: plan refresh, then the rest of the tick, with
\* the SoC sensor answering one of soc_responses
TickTill(soc_responses, max_now) ==
    /\ loop.pc = "tick"
    /\ \E prices \in Asked(plan_due(loop.last_plan_update, now), PriceResponses) :
         LET due == plan_due(loop.last_plan_update, now)
         IN  /\ charging_plan' = IF due
                                 THEN updated_plan(charging_plan, prices, battery_soc, now)
                                 ELSE charging_plan
             /\ RulesTill(due, charging_plan', obs, soc_responses, max_now)
    /\ req' = IdleReq
    /\ UNCHANGED <<controller_running, auto_optimization_enabled, reader, ucp, fcall,
                   hourly_consumption, kostal_api>>

TickOf(soc_responses) == TickTill(soc_responses, MaxNow)

Tick == TickOf(SocResponses)

\* powers an operator asks for
RequestedPowers == {2000}

\* the history once an HTTP handler has run: the last tick is no longer the
\* latest operation
AfterRequest(o) == [o EXCEPT !.tick = NoTick]

\* every call of the log returned True
AllOk(calls) == \A i \in 1..Len(calls) : calls[i].outcome = "ok"

\* api_control, start_charging
StartCharging ==
    /\ \E power \in RequestedPowers :
         \E outcomes \in OutcomeSeqs(ManualStartCalls(power)) :
           /\ inverter' = run_calls(inverter, ManualStartCalls(power), outcomes)
           /\ req' = [IdleReq EXCEPT !.kind = "start_charging", !.power = power,
                         !.calls = log_calls(ManualStartCalls(power), outcomes)]
           /\ obs' = [AfterRequest(obs) EXCEPT !.started =
                         IF AllOk(log_calls(ManualStartCalls(power), outcomes))
                         THEN Some(power) ELSE None]
    /\ mode' = "manual_charging"
    /\ control_mode' = "external"
    /\ loop' = [loop EXCEPT !.to = "none", !.calls = <<>>]
    /\ UNCHANGED <<now, controller_running, battery_soc, charging_plan,
                   auto_optimization_enabled, reader, ucp, fcall,
                   hourly_consumption, kostal_api>>

\* api_control, stop_charging
StopCharging ==
    /\ \E outcomes \in OutcomeSeqs(ManualStopCalls) :
         /\ inverter' = run_calls(inverter, ManualStopCalls, outcomes)
         /\ req' = [IdleReq EXCEPT !.kind = "stop_charging",
                                   !.calls = log_calls(ManualStopCalls, outcomes)]
    /\ mode' = "automatic"
    /\ control_mode' = "internal"
    /\ loop' = [loop EXCEPT !.to = "none", !.calls = <<>>]
    /\ obs' = [AfterRequest(obs) EXCEPT !.started = None]
    /\ UNCHANGED <<now, controller_running, battery_soc, charging_plan,
                   auto_optimization_enabled, reader, ucp, fcall,
                   hourly_consumption, kostal_api>>

\* api_control, auto_mode
AutoMode ==
    /\ controller_running' = TRUE
    /\ mode' = "automatic"
    /\ req' = IdleReq
    /\ loop' = [loop EXCEPT !.to = "none", !.calls = <<>>]
    /\ obs' = [AfterRequest(obs) EXCEPT !.started = None]
    /\ UNCHANGED <<now, battery_soc, control_mode, charging_plan,
                   auto_optimization_enabled, inverter, reader, ucp, fcall,
                   hourly_consumption, kostal_api>>

\* api_control, toggle_automation
ToggleAutomation ==
    /\ \E enabled \in BOOLEAN : controller_running' = enabled
    /\ req' = IdleReq
    /\ loop' = [loop EXCEPT !.to = "none", !.calls = <<>>]
    /\ obs' = AfterRequest(obs)
    /\ UNCHANGED <<now, battery_soc, mode, control_mode, charging_plan,
                   auto_optimization_enabled, inverter, reader, ucp, fcall,
                   hourly_consumption, kostal_api>>

\* api_config, POST: config.update(new_config)
api_config ==
    /\ \E enabled \in BOOLEAN : auto_optimization_enabled' = enabled
    /\ req' = IdleReq
    /\ loop' = [loop EXCEPT !.to = "none", !.calls = <<>>]
    /\ obs' = AfterRequest(obs)
    /\ UNCHANGED <<now, controller_running, battery_soc, mode, control_mode,
                   charging_plan, inverter, reader, ucp, fcall,
                   hourly_consumption, kostal_api>>

\* api_recalculate_plan
api_recalculate_plan ==
    /\ loop.pc = "tick"
    /\ \E response \in PriceResponses :
         charging_plan' = updated_plan(charging_plan, response, battery_soc, now)
    /\ obs' = AfterRequest(obs)
    /\ req' = IdleReq
    /\ loop' = [loop EXCEPT !.to = "none", !.calls = <<>>]
    /\ UNCHANGED <<now, controller_running, battery_soc, mode, control_mode,
                   auto_optimization_enabled, inverter, reader, ucp, fcall,
                   hourly_consumption, kostal_api>>

Next ==
    \/ Startup
    \/ Tick
    \/ StartCharging
    \/ StopCharging
    \/ AutoMode
    \/ ToggleAutomation
    \/ api_config
    \/ api_recalculate_plan

Spec == Init /\ [][Next]_vars

-----------------------------------------------------------------------------
(* The tick and start_charging call by call: the loop thread and the HTTP
   handler thread share app_state and the inverter without a lock *)

\* lines 1036-1098/1107: plan refresh, gate, sensors, rules and the test of
\* the mode; a tick with nothing to do goes to sleep
LoopDecide ==
    /\ loop.pc = "tick"
    /\ \E prices \in Asked(plan_due(loop.last_plan_update, now), PriceResponses),
          soc \in SocResponses :
       \E roof1 \in Asked(SocRead(soc), PvResponses),
          roof2 \in Asked(SocRead(soc), PvResponses) :
         LET due == plan_due(loop.last_plan_update, now)
             plan == IF due THEN updated_plan(charging_plan, prices, battery_soc, now)
                     ELSE charging_plan
             to == tick_branch(soc, roof1, roof2, plan)
         IN  /\ charging_plan' = plan
             /\ battery_soc' = IF SocRead(soc) THEN float(or_zero(get_state(soc)))
                               ELSE battery_soc
             /\ loop' = [loop EXCEPT
                           !.pc = IF to = "sleep" THEN "tick" ELSE "calls",
                           !.last_plan_update = IF due THEN Some(now) ELSE @,
                           !.to = to,
                           !.todo = branch_calls(to),
                           !.calls = <<>>]
             /\ now' \in IF to = "sleep" THEN Slept ELSE {now}
    /\ UNCHANGED <<controller_running, mode, control_mode, auto_optimization_enabled,
                   inverter, req, reader, ucp, obs, fcall, hourly_consumption, kostal_api>>

\* lines 1100-1102 / 1109-1110: the next call of the branch
LoopCall ==
    /\ loop.pc = "calls"
    /\ loop.todo # <<>>
    /\ \E outcome \in Outcomes(Head(loop.todo)) :
         /\ inverter' = perform(inverter, Head(loop.todo), outcome)
         /\ loop' = [loop EXCEPT !.todo = Tail(@),
                                 !.calls = Append(@, Logged(Head(loop.todo), outcome))]
    /\ UNCHANGED <<now, controller_running, battery_soc, mode, control_mode,
                   charging_plan, auto_optimization_enabled, req, reader, ucp, obs, fcall,
                   hourly_consumption, kostal_api>>

\* lines 1103-1104 / 1111-1112: the mode is recorded, then the sleep
LoopCommit ==
    /\ loop.pc = "calls"
    /\ loop.todo = <<>>
    /\ mode' = recorded_mode(loop.to)
    /\ control_mode' = recorded_control(loop.to)
    /\ loop' = [loop EXCEPT !.pc = "tick"]
    /\ now' \in Slept
    /\ UNCHANGED <<controller_running, battery_soc, charging_plan,
                   auto_optimization_enabled, inverter, req, reader, ucp, obs, fcall,
                   hourly_consumption, kostal_api>>

\* api_control receives start_charging
StartReceive ==
    /\ req.pc = "idle"
    /\ \E power \in RequestedPowers :
         req' = [kind |-> "start_charging", pc |-> "calls", power |-> power,
                 todo |-> ManualStartCalls(power), calls |-> <<>>]
    /\ obs' = [obs EXCEPT !.started = None]
    /\ UNCHANGED <<now, controller_running, battery_soc, mode, control_mode,
                   charging_plan, auto_optimization_enabled, inverter, loop, reader, ucp, fcall,
                   hourly_consumption, kostal_api>>

\* lines 434-438: the next call of start_charging
StartCall ==
    /\ req.pc = "calls"
    /\ req.todo # <<>>
    /\ \E outcome \in Outcomes(Head(req.todo)) :
         /\ inverter' = perform(inverter, Head(req.todo), outcome)
         /\ req' = [req EXCEPT !.todo = Tail(@),
                               !.calls = Append(@, Logged(Head(req.todo), outcome))]
    /\ UNCHANGED <<now, controller_running, battery_soc, mode, control_mode,
                   charging_plan, auto_optimization_enabled, loop, reader, ucp, obs, fcall,
                   hourly_consumption, kostal_api>>

\* lines 440-441: the mode is recorded and the response sent
StartCommit ==
    /\ req.pc = "calls"
    /\ req.todo = <<>>
    /\ mode' = "manual_charging"
    /\ control_mode' = "external"
    /\ req' = [req EXCEPT !.pc = "idle"]
    /\ obs' = [obs EXCEPT !.started = IF AllOk(req.calls) THEN Some(req.power) ELSE None]
    /\ UNCHANGED <<now, controller_running, battery_soc, charging_plan,
                   auto_optimization_enabled, inverter, loop, reader, ucp, fcall,
                   hourly_consumption, kostal_api>>

NextRace ==
    \/ Startup
    \/ LoopDecide
    \/ LoopCall
    \/ LoopCommit
    \/ StartReceive
    \/ StartCall
    \/ StartCommit

SpecRace == Init /\ [][NextRace]_vars

-----------------------------------------------------------------------------
(* update_charging_plan store by store, run by the loop thread and by
   /api/recalculate_plan, with the status explainer reading the plan *)

\* lines 807-866: the price sensor is asked and the plan computed; responses
\* are the answers the sensor may give
UcpFetchOf(th, responses) ==
    /\ ucp[th].pc = "call"
    /\ \E response \in responses :
         LET charge_end == charge_end_of(response, now)
         IN  IF ~prices_available(response) \/ charge_end = Raised
             THEN /\ ucp' = [ucp EXCEPT ![th].pc = "ret"]
                  /\ UNCHANGED <<charging_plan, obs>>
             ELSE IF charge_end # None
             THEN /\ ucp' = [ucp EXCEPT ![th] =
                               [pc |-> "planned_start",
                                charge_start |-> calculate_charge_start_time(
                                    charge_end[1], battery_soc, auto_charge_below_soc),
                                charge_end |-> charge_end[1],
                                gen |-> NextGen]]
                  /\ obs' = [obs EXCEPT !.recalcs = NextGen]
                  /\ UNCHANGED charging_plan
             ELSE /\ charging_plan' = [charging_plan EXCEPT !.last_calculated = isoformat(now)]
                  /\ ucp' = [ucp EXCEPT ![th].pc = "ret"]
                  /\ UNCHANGED obs
    /\ UNCHANGED <<now, controller_running, battery_soc, mode, control_mode,
                   auto_optimization_enabled, inverter, loop, req, reader, fcall,
                   hourly_consumption, kostal_api>>

UcpFetch(th) == UcpFetchOf(th, PriceResponses)

\* lines 868-871: the four assignments, one at a time
UcpStore(th) ==
    /\ \/ /\ ucp[th].pc = "planned_start"
          /\ charging_plan' = [charging_plan EXCEPT
                                 !.planned_start = isoformat(ucp[th].charge_start)]
          /\ obs' = [obs EXCEPT !.gens.planned_start = ucp[th].gen]
          /\ ucp' = [ucp EXCEPT ![th].pc = "planned_end"]
       \/ /\ ucp[th].pc = "planned_end"
          /\ charging_plan' = [charging_plan EXCEPT
                                 !.planned_end = isoformat(ucp[th].charge_end)]
          /\ obs' = [obs EXCEPT !.gens.planned_end = ucp[th].gen]
          /\ ucp' = [ucp EXCEPT ![th].pc = "last_calculated"]
       \/ /\ ucp[th].pc = "last_calculated"
          /\ charging_plan' = [charging_plan EXCEPT !.last_calculated = isoformat(now)]
          /\ ucp' = [ucp EXCEPT ![th].pc = "target_soc"]
          /\ UNCHANGED obs
       \/ /\ ucp[th].pc = "target_soc"
          /\ charging_plan' = [charging_plan EXCEPT
                                 !.target_soc = Some(auto_charge_below_soc)]
          /\ obs' = [obs EXCEPT !.gens.target_soc = ucp[th].gen]
          /\ ucp' = [ucp EXCEPT ![th].pc = "ret"]
    /\ UNCHANGED <<now, controller_running, battery_soc, mode, control_mode,
                   auto_optimization_enabled, inverter, loop, req, reader, fcall,
                   hourly_consumption, kostal_api>>

update_charging_plan(th) == UcpFetch(th) \/ UcpStore(th)

\* line 1030: the loop thread calls update_charging_plan before the loop
LoopStartup ==
    /\ loop.pc = "startup"
    /\ loop' = [loop EXCEPT !.pc = "startup_update"]
    /\ ucp' = [ucp EXCEPT !["loop"].pc = "call"]
    /\ UNCHANGED <<now, controller_running, battery_soc, mode, control_mode,
                   charging_plan, auto_optimization_enabled, inverter, req, reader, obs, fcall,
                   hourly_consumption, kostal_api>>

\* lines 1036-1039: the tick calls update_charging_plan when the plan is due
LoopRefresh ==
    /\ loop.pc = "tick"
    /\ IF plan_due(loop.last_plan_update, now)
       THEN /\ loop' = [loop EXCEPT !.pc = "refresh"]
            /\ ucp' = [ucp EXCEPT !["loop"].pc = "call"]
       ELSE /\ loop' = [loop EXCEPT !.pc = "rules"]
            /\ UNCHANGED ucp
    /\ UNCHANGED <<now, controller_running, battery_soc, mode, control_mode,
                   charging_plan, auto_optimization_enabled, inverter, req, reader, obs, fcall,
                   hourly_consumption, kostal_api>>

\* lines 1031 and 1040: update_charging_plan has returned to the loop thread
LoopPlanDone ==
    /\ loop.pc \in {"startup_update", "refresh"}
    /\ ucp["loop"].pc = "ret"
    /\ ucp' = [ucp EXCEPT !["loop"] = IdleFrame]
    /\ loop' = [loop EXCEPT !.pc = IF @ = "refresh" THEN "rules" ELSE "tick",
                            !.last_plan_update = Some(now)]
    /\ UNCHANGED <<now, controller_running, battery_soc, mode, control_mode,
                   charging_plan, auto_optimization_enabled, inverter, req, reader, obs, fcall,
                   hourly_consumption, kostal_api>>

\* lines 1064-1119: the rest of the tick
LoopRules ==
    /\ loop.pc = "rules"
    /\ Rules(FALSE, charging_plan, obs)
    /\ UNCHANGED <<controller_running, charging_plan, auto_optimization_enabled,
                   req, reader, ucp, fcall, hourly_consumption, kostal_api>>

\* /api/recalculate_plan calls update_charging_plan on the handler's thread
RecalculateReceive ==
    /\ ucp["http"].pc = "idle"
    /\ ucp' = [ucp EXCEPT !["http"].pc = "call"]
    /\ UNCHANGED <<now, controller_running, battery_soc, mode, control_mode,
                   charging_plan, auto_optimization_enabled, inverter, loop, req,
                   reader, obs, fcall, hourly_consumption, kostal_api>>

\* update_charging_plan has returned to the handler, the response is sent
RecalculateRespond ==
    /\ ucp["http"].pc = "ret"
    /\ ucp' = [ucp EXCEPT !["http"] = IdleFrame]
    /\ UNCHANGED <<now, controller_running, battery_soc, mode, control_mode,
                   charging_plan, auto_optimization_enabled, inverter, loop, req,
                   reader, obs, fcall, hourly_consumption, kostal_api>>

\* get_charging_status_explanation, lines 922-925: the reads of the plan, one
\* at a time; fromisoformat(None) raises and ends the explanation in its
\* except branch
StatusRead ==
    /\ \/ /\ reader.pc = "idle"
          /\ reader' = [IdleReader EXCEPT
                          !.pc = IF charging_plan.planned_start # None
                                 THEN "planned_start" ELSE "done"]
       \/ /\ reader.pc = "planned_start"
          /\ reader' = [reader EXCEPT !.pc = "planned_end",
                                      !.planned_start = charging_plan.planned_start,
                                      !.gens.planned_start = obs.gens.planned_start]
       \/ /\ reader.pc = "planned_end"
          /\ reader' = [reader EXCEPT
                          !.pc = IF charging_plan.planned_end = None
                                 THEN "done" ELSE "target_soc",
                          !.error = charging_plan.planned_end = None,
                          !.planned_end = charging_plan.planned_end,
                          !.gens.planned_end = obs.gens.planned_end]
       \/ /\ reader.pc = "target_soc"
          /\ reader' = [reader EXCEPT !.pc = "done",
                                      !.target_soc = charging_plan.target_soc,
                                      !.gens.target_soc = obs.gens.target_soc]
    /\ UNCHANGED <<now, controller_running, battery_soc, mode, control_mode,
                   charging_plan, auto_optimization_enabled, inverter, loop, req,
                   ucp, obs, fcall, hourly_consumption, kostal_api>>

\* /api/charging_status has answered
StatusRespond ==
    /\ reader.pc = "done"
    /\ reader' = IdleReader
    /\ UNCHANGED <<now, controller_running, battery_soc, mode, control_mode,
                   charging_plan, auto_optimization_enabled, inverter, loop, req,
                   ucp, obs, fcall, hourly_consumption, kostal_api>>

api_charging_status == StatusRead \/ StatusRespond

api_recalculate == RecalculateReceive \/ RecalculateRespond

NextPlan ==
    \/ LoopStartup
    \/ LoopRefresh
    \/ LoopPlanDone
    \/ LoopRules
    \/ update_charging_plan("loop")
    \/ update_charging_plan("http")
    \/ api_recalculate
    \/ api_charging_status

\* the add-on started from an options file that has auto_optimization_enabled off
InitPlan ==
    /\ now = 0
    /\ controller_running = TRUE
    /\ battery_soc = 0
    /\ mode = "automatic"
    /\ control_mode = "internal"
    /\ charging_plan = [planned_start |-> None, planned_end |-> None,
                        last_calculated |-> None, target_soc |-> None]
    /\ auto_optimization_enabled = FALSE
    /\ inverter = [extern |-> FALSE, setpoint |-> 0]
    /\ loop = [pc |-> "startup", last_plan_update |-> None, to |-> "none",
               todo |-> <<>>, calls |-> <<>>]
    /\ req = IdleReq
    /\ reader = IdleReader
    /\ ucp = [t \in Threads |-> IdleFrame]
    /\ obs = [tick |-> NoTick, gens |-> NoGens, recalcs |-> 0, started |-> None]
    /\ fcall = NoCall
    /\ hourly_consumption = {}
    /\ kostal_api = NoSession

SpecPlan == InitPlan /\ [][NextPlan]_vars

-----------------------------------------------------------------------------
(* Properties of the control loop, on the states right after a tick *)

\* the latest operation was a tick of the control loop
TickDone == obs.tick.mode_before # "none"

\* the SoC sensor answered the tick with a number below auto_safety_soc
SocBelowSafety == obs.tick.sensor.tag = "num" /\ obs.tick.sensor.v < auto_safety_soc

\* the log holds a call of this kind
Issued(log, call) ==
    \E i \in 1..Len(log) :
        log[i].fn = call.fn /\ log[i].enabled = call.enabled /\ log[i].watts = call.watts

\* C1 (as stated): after every tick in which the SoC is below auto_safety_soc
\* the mode is auto_charging or manual_charging.
C1_SafetyEveryTick == (TickDone /\ SocBelowSafety) => mode \in ChargingModes

\* C1 (amended): after every tick that runs with controller_running and
\* auto_optimization_enabled both true and reads a SoC below auto_safety_soc,
\* the mode is auto_charging or manual_charging, whatever the plan, the
\* prices and the PV forecast are.
C1_SafetyWhenAutomationOn ==
    (TickDone /\ SocBelowSafety /\ controller_running /\ auto_optimization_enabled)
        => mode \in ChargingModes

\* a tick found the SoC low while a plan was stored, and began charging
C1_Witness ==
    /\ TickDone /\ SocBelowSafety /\ controller_running /\ auto_optimization_enabled
    /\ obs.tick.mode_before = "automatic"
    /\ mode = "auto_charging"
    /\ charging_plan.planned_start # None
    /\ loop.calls # <<>>

Ordered(log) ==
    \A i \in 1..Len(log) :
        /\ (log[i].fn = "write_battery_power" /\ log[i].watts < 0)
              => \E j \in 1..(i - 1) : log[j].fn = "set_external_control" /\ log[j].enabled
        /\ (log[i].fn = "set_external_control" /\ ~log[i].enabled)
              => \E j \in 1..(i - 1) : log[j].fn = "write_battery_power" /\ log[j].watts = 0

\* C3: every entry to charging, by a tick or by start_charging, issues
\* set_external_control(True) before the negative setpoint, and every exit, by
\* a tick or by stop_charging, issues write_battery_power(0) before
\* set_external_control(False).
C3_CallOrder ==
    /\ Ordered(loop.calls) /\ Ordered(req.calls)
    /\ loop.to = "start" => \E i \in 1..Len(loop.calls) : loop.calls[i].watts < 0
    /\ loop.to = "stop" => Issued(loop.calls, ExternalControl(FALSE))
    /\ req.kind = "start_charging" => \E i \in 1..Len(req.calls) : req.calls[i].watts < 0
    /\ req.kind = "stop_charging" => Issued(req.calls, ExternalControl(FALSE))

\* a tick entered charging with both calls answered
C3_Witness ==
    /\ loop.to = "start"
    /\ Len(loop.calls) = 2
    /\ AllOk(loop.calls)
    /\ inverter = [extern |-> TRUE, setpoint |-> -max_charge_power]

\* C4: after every tick, external control is enabled on the inverter exactly
\* when a nonzero setpoint is in effect.
C4_PairConsistent == TickDone => (inverter.extern <=> inverter.setpoint # 0)

\* C5: a tick whose entry to charging had a failed call does not record
\* auto_charging / external.
C5_NoOptimisticMode ==
    (TickDone /\ loop.to = "start" /\ ~AllOk(loop.calls))
        => ~(mode = "auto_charging" /\ control_mode = "external")

\* C6: a tick whose SoC read yields no data (None, 'unknown', 'unavailable')
\* issues no call and leaves the mode as it was.
C6_NoDataNoDecision ==
    (TickDone /\ obs.tick.sensor.tag # "num")
        => loop.calls = <<>> /\ mode = obs.tick.mode_before

\* C7: after a tick in which set_external_control failed on authentication
\* the recorded mode is automatic / internal and no setpoint was written.
C7_AuthFailureInternal ==
    (TickDone /\ \E i \in 1..Len(loop.calls) : loop.calls[i].outcome = "auth_failed")
        => /\ mode = "automatic" /\ control_mode = "internal"
           /\ \A i \in 1..Len(loop.calls) : loop.calls[i].fn # "write_battery_power"

\* C8: a tick with auto_optimization_enabled false or controller_running
\* false, and a mode other than manual_charging, issues no call and leaves
\* the mode as it was.
C8_AutomationOffNoAction ==
    (/\ TickDone
     /\ ~auto_optimization_enabled \/ ~controller_running
     /\ obs.tick.mode_before # "manual_charging")
        => loop.calls = <<>> /\ mode = obs.tick.mode_before

\* a tick ran with automation off while an automatic charge was recorded and
\* the SoC sensor reported a value at which the rules would stop it
C8_Witness ==
    /\ TickDone
    /\ ~auto_optimization_enabled \/ ~controller_running
    /\ obs.tick.mode_before = "auto_charging"
    /\ obs.tick.sensor = NumState(60)

\* both the tick and the start_charging request have finished, and every
\* call of the request was answered
BothFinished == loop.pc = "tick" /\ req.pc = "idle" /\ obs.started # None

\* C9: once a start_charging request and the tick it ran alongside have both
\* finished, the mode is manual_charging and the setpoint on the inverter is
\* the power the operator asked for.
C9_OperatorWins ==
    BothFinished => /\ mode = "manual_charging"
                    /\ inverter.setpoint = -Abs(obs.started[1])

\* the explainer has read the plan and found a planned_start
PlanRead == reader.pc = "done" /\ reader.planned_start # None

\* C10: the planned_start, planned_end and target_soc a reader gets while
\* update_charging_plan runs are all of the same recomputation.
C10_NoPartialPlan ==
    PlanRead => /\ reader.gens.planned_end = reader.gens.planned_start
                /\ ~reader.error => reader.gens.target_soc = reader.gens.planned_start

-----------------------------------------------------------------------------
(* Shutdown of the process.  controller_loop runs on a daemon thread and
   app.py registers no signal or exit handler; KostalAPI.__del__ logs out *)

\* the process is running
Alive == loop.pc # "exited"

\* the interpreter exits: the daemon thread ends where it stands, __del__
\* calls logout(), which ends the session and writes no setting
Shutdown ==
    /\ Alive
    /\ loop' = [loop EXCEPT !.pc = "exited"]
    /\ UNCHANGED <<now, controller_running, battery_soc, mode, control_mode,
                   charging_plan, auto_optimization_enabled, inverter, req,
                   reader, ucp, obs, fcall, hourly_consumption, kostal_api>>

NextShutdown ==
    \/ Startup
    \/ Tick
    \/ Alive /\ StartCharging
    \/ Alive /\ StopCharging
    \/ Shutdown

SpecShutdown == Init /\ [][NextShutdown]_vars

\* C11: after a shutdown the inverter is not left in external control with a
\* nonzero setpoint.
C11_SafeStateOnShutdown ==
    ~Alive => ~(inverter.extern /\ inverter.setpoint # 0)

-----------------------------------------------------------------------------
(* The rule evaluation on its own: should_charge_now as controller_loop calls
   it, and the branches of get_charging_status_explanation, on the same inputs *)

\* get_charging_status_explanation, lines 956-989: will_charge
will_charge(current_soc, min_soc, max_soc, pv_remaining, pv_threshold, planned_start, t) ==
    IF current_soc < min_soc THEN TRUE
    ELSE IF current_soc >= max_soc THEN FALSE
    ELSE IF pv_remaining > pv_threshold THEN FALSE
    ELSE IF planned_start # None /\ t >= planned_start[1] THEN TRUE
    ELSE FALSE

\* SoC, the two SoC limits, remaining PV, the configured auto_pv_threshold,
\* the stored planned_start and the clock
RuleInputs ==
    [current_soc : {10, 16, 60, 95},
     min_soc : {auto_safety_soc},
     max_soc : {15, auto_charge_below_soc},
     pv_remaining : {0, 4, 6, 9},
     pv_threshold : {3, auto_pv_threshold, 8},
     planned_start : {None, Some(0), Some(7200)},
     t : {3600}]

InitRules ==
    /\ Constructed
    /\ fcall \in {[fn |-> "rules", args |-> a, decided |-> FALSE, explained |-> FALSE,
                   decision |-> [charge |-> FALSE, reason |-> "none"],
                   will_charge |-> FALSE] : a \in RuleInputs}

\* controller_loop, lines 1093-1095: the call of should_charge_now; the
\* configured auto_pv_threshold is not among its arguments
EvaluateRules ==
    /\ fcall.fn = "rules"
    /\ ~fcall.decided
    /\ fcall' = [fcall EXCEPT
                   !.decided = TRUE,
                   !.decision = should_charge_now(
                       fcall.args.planned_start, fcall.args.current_soc,
                       fcall.args.min_soc, fcall.args.max_soc,
                       fcall.args.pv_remaining, fcall.args.t)]
    /\ UNCHANGED <<now, controller_running, battery_soc, mode, control_mode,
                   charging_plan, auto_optimization_enabled, inverter, loop, req,
                   reader, ucp, obs, hourly_consumption, kostal_api>>

\* get_charging_status_explanation: it reads, and writes nothing
ExplainStatus ==
    /\ fcall.fn = "rules"
    /\ ~fcall.explained
    /\ fcall' = [fcall EXCEPT
                   !.explained = TRUE,
                   !.will_charge = will_charge(
                       fcall.args.current_soc, fcall.args.min_soc, fcall.args.max_soc,
                       fcall.args.pv_remaining, fcall.args.pv_threshold,
                       fcall.args.planned_start, fcall.args.t)]
    /\ UNCHANGED <<now, controller_running, battery_soc, mode, control_mode,
                   charging_plan, auto_optimization_enabled, inverter, loop, req,
                   reader, ucp, obs, hourly_consumption, kostal_api>>

NextRules ==
    \/ EvaluateRules
    \/ ExplainStatus

SpecRules == InitRules /\ [][NextRules]_vars

\* should_charge_now has returned
Decided == fcall.fn = "rules" /\ fcall.decided

\* the SoC lies between the two limits
SocInBand ==
    /\ fcall.args.current_soc >= fcall.args.min_soc
    /\ fcall.args.current_soc < fcall.args.max_soc

\* the plan's start has been reached
StartReached ==
    fcall.args.planned_start # None /\ fcall.args.t >= fcall.args.planned_start[1]

\* C12: should_charge_now returns the outcome of the first rule that matches,
\* in the order safety, full, PV-sufficient, planned, waiting.
C12_RuleOrder ==
    Decided =>
        /\ fcall.args.current_soc < fcall.args.min_soc
              => fcall.decision = [charge |-> TRUE, reason |-> "safety"]
        /\ (fcall.args.current_soc >= fcall.args.min_soc
            /\ fcall.args.current_soc >= fcall.args.max_soc)
              => fcall.decision = [charge |-> FALSE, reason |-> "full"]
        /\ (SocInBand /\ fcall.args.pv_remaining > pv_hardcoded_threshold)
              => fcall.decision = [charge |-> FALSE, reason |-> "pv_sufficient"]
        /\ (SocInBand /\ fcall.args.pv_remaining <= pv_hardcoded_threshold /\ StartReached)
              => fcall.decision = [charge |-> TRUE, reason |-> "planned"]
        /\ (SocInBand /\ fcall.args.pv_remaining <= pv_hardcoded_threshold /\ ~StartReached)
              => fcall.decision = [charge |-> FALSE, reason |-> "waiting"]

\* the safety rule and the full rule both match, and safety was returned
C12_Witness ==
    /\ Decided
    /\ fcall.args.current_soc < fcall.args.min_soc
    /\ fcall.args.current_soc >= fcall.args.max_soc
    /\ fcall.decision.charge

\* C13: with the SoC between the limits the tick decides "PV sufficient"
\* exactly when the remaining PV exceeds the configured auto_pv_threshold.
C13_ConfiguredPvThreshold ==
    (Decided /\ SocInBand)
        => (fcall.decision.reason = "pv_sufficient"
              <=> fcall.args.pv_remaining > fcall.args.pv_threshold)

\* C14: the explainer's will_charge equals what should_charge_now returns for
\* the same inputs.
C14_ExplainerAgrees ==
    (Decided /\ fcall.explained) => fcall.will_charge = fcall.decision.charge

-----------------------------------------------------------------------------
(* find_optimal_charge_end_time as a function of the curve, the time and the
   thresholds *)

\* a time before the first sample of every curve (index 0 starts at -2 h)
Earliest == (0 - 2) * 3600 - 1

\* prices (in cent) and lengths of the curves enumerated in full
GridPrices == {10, 11, 20}
MinGridLen == 5
MaxGridLen == 7
GridCurves ==
    UNION {{Curve(totals) : totals \in [1..n -> GridPrices]} : n \in MinGridLen..MaxGridLen}

\* the curve 0.10, 0.10, 0.10, 0.11, 0.20, 0.22, 0.25 in cent
ExampleCurve == Curve(<<10, 10, 10, 11, 20, 22, 25>>)

\* n samples, the price low before index k and high from index k on
StepCurve(n, k, low, high) ==
    [j \in 1..n |-> Sample(j - 1, IF j - 1 < k THEN low ELSE high)]
MaxStepLen == 8
StepLevels == {<<1, 10>>, <<0, 1>>, <<-2, -1>>}
StepCurves ==
    {StepCurve(n, k, lv[1], lv[2]) : n \in 6..MaxStepLen, k \in 1..(MaxStepLen - 1), lv \in StepLevels}

\* n samples of one price
ConstantCurve(n, price) == [j \in 1..n |-> Sample(j - 1, price)]
MaxConstantLen == 8
ConstantCurves == {ConstantCurve(n, price) : n \in 0..MaxConstantLen, price \in {0, 10}}

\* a sample as the sensor attribute may carry it: startsAt null, startsAt no
\* ISO timestamp, total null
Damages(sample) ==
    {[sample EXCEPT !.startsAt = None],
     [sample EXCEPT !.startsAt = BadText],
     [sample EXCEPT !.total = None]}
DamagedCurves ==
    UNION {{[ExampleCurve EXCEPT ![j] = d] : d \in Damages(ExampleCurve[j])} :
             j \in 1..Len(ExampleCurve)}

ScanCurves == GridCurves \cup {ExampleCurve} \cup StepCurves \cup ConstantCurves \cup DamagedCurves
ScanTimes == {Earliest, MaxNow}
ScanThresholds == {<<8, 8>>, <<0, 0>>, <<0, 50>>}
ScanInputs == [prices : ScanCurves, t : ScanTimes, thresholds : ScanThresholds]

InitScan ==
    /\ Constructed
    /\ fcall \in {[fn |-> "find", args |-> a, applied |-> FALSE, result |-> None] :
                    a \in ScanInputs}

\* TibberOptimizer(config).find_optimal_charge_end_time(prices) at time t
FindOptimalChargeEnd ==
    /\ fcall.fn = "find"
    /\ ~fcall.applied
    /\ fcall' = [fcall EXCEPT
                   !.applied = TRUE,
                   !.result = find_optimal_charge_end(
                       fcall.args.prices, fcall.args.t,
                       fcall.args.thresholds[1], fcall.args.thresholds[2])]
    /\ UNCHANGED <<now, controller_running, battery_soc, mode, control_mode,
                   charging_plan, auto_optimization_enabled, inverter, loop, req,
                   reader, ucp, obs, hourly_consumption, kostal_api>>

NextScan == FindOptimalChargeEnd

SpecScan == InitScan /\ [][NextScan]_vars


\* find_optimal_charge_end_time has ended
Found == fcall.fn = "find" /\ fcall.applied

\* it ended by returning a timestamp
ReturnedTime == Found /\ Len(fcall.result) = 1

\* the number of samples and the indices the scan visits
SampleCount == Len(fcall.args.prices)
Scanned == 3..(SampleCount - 3)

\* the returned timestamp is the startsAt of index i
ReturnedIndex(i) ==
    /\ ReturnedTime
    /\ At(fcall.args.prices, i).startsAt = isoformat(fcall.result[1])

\* every sample is in the future
AllFuture == fcall.args.t = Earliest

\* the samples index i reads parse
Parses(i) ==
    /\ At(fcall.args.prices, i).startsAt \notin {None, BadText}
    /\ \A k \in (i - 2)..(i + 2) : At(fcall.args.prices, k).total # None

\* the price of index i
p(i) == At(fcall.args.prices, i).total[1]

\* index i parses, lies strictly after now and meets both conditions
Qualifying(i) ==
    /\ Parses(i)
    /\ fromisoformat(At(fcall.args.prices, i).startsAt) > fcall.args.t
    /\ 100 * p(i) > p(i - 1) * (100 + fcall.args.thresholds[1])
    /\ 100 * (p(i - 2) + p(i - 1) + p(i))
           < (p(i) + p(i + 1) + p(i + 2)) * (100 + fcall.args.thresholds[2])

\* C15: with fewer than 6 samples the result is None; otherwise it is the
\* startsAt of the lowest scanned index that qualifies, indices that fail to
\* parse being skipped, and None when no index qualifies.
C15_LowestQualifyingIndex ==
    Found =>
        IF SampleCount < 6 \/ ~\E i \in Scanned : Qualifying(i)
        THEN fcall.result = None
        ELSE \E i \in Scanned :
                /\ Qualifying(i)
                /\ \A j \in Scanned : Qualifying(j) => i <= j
                /\ ReturnedIndex(i)


\* C16 as stated: the returned index i satisfies 3 <= i < n-3.
C16_IndexBelowLastThree ==
    \A i \in 0..(SampleCount - 1) : ReturnedIndex(i) => 3 <= i /\ i < SampleCount - 3

\* C16: the index whose startsAt is returned satisfies 3 <= i <= n-3 (the scan
\* visits range(3, n-2)), so that i-2 and i+2 are indices of the curve.
C16_IndexWithinScan ==
    \A i \in 0..(SampleCount - 1) : ReturnedIndex(i) => 3 <= i /\ i <= SampleCount - 3

\* six samples, and the startsAt of index 3 = n-3 was returned
C16_Witness == SampleCount = 6 /\ ReturnedIndex(3)


\* the curve 0.10, 0.10, 0.10, 0.11, 0.20, 0.22, 0.25 was scanned with both
\* thresholds 8 % and every sample in the future
ExampleCase ==
    /\ Found
    /\ fcall.args.prices = ExampleCurve
    /\ fcall.args.thresholds = <<8, 8>>
    /\ AllFuture

\* C17 as stated: for the example curve the startsAt of index 4 (price 0.20)
\* is returned.
C17_ExampleReturnsIndex4 == ExampleCase => ReturnedIndex(4)

\* C17: for the example curve the startsAt of index 3 (price 0.11) is
\* returned: 0.11 > 0.10 * 1.08 and 0.31 < 0.53 * 1.08.
C17_ExampleReturnsIndex3 == ExampleCase => ReturnedIndex(3)

\* the example curve was scanned and a timestamp came back
C17_Witness == ExampleCase /\ ReturnedTime


\* a step curve with the step at index k was scanned with both thresholds 0
\* and every sample in the future
StepCase(k) ==
    /\ Found
    /\ fcall.args.thresholds = <<0, 0>>
    /\ AllFuture
    /\ 1 <= k /\ k <= SampleCount - 1
    /\ \A j \in 0..(SampleCount - 1) : At(fcall.args.prices, j).total # None
    /\ p(0) < p(SampleCount - 1)
    /\ fcall.args.prices = StepCurve(SampleCount, k, p(0), p(SampleCount - 1))

\* C18 as stated: for a step curve with the step at index k the startsAt of
\* index k is returned.
C18_StepReturnsStepIndex ==
    \A k \in 1..(SampleCount - 1) : StepCase(k) => ReturnedIndex(k)

\* C18: for a step curve with the step at a scanned index k, 3 <= k <= n-3,
\* the startsAt of index k is returned; with the step at another index the
\* result is None.
C18_StepWithinScan ==
    \A k \in 1..(SampleCount - 1) :
        StepCase(k) => IF k \in Scanned THEN ReturnedIndex(k) ELSE fcall.result = None

\* the curve 1, 1, 1, 1, 10, 10, 10 was scanned and the startsAt of index 4
\* came back
C18_Witness ==
    /\ StepCase(4)
    /\ fcall.args.prices = StepCurve(7, 4, 1, 10)
    /\ ReturnedIndex(4)


\* a constant curve of a non-negative price was scanned (the thresholds of
\* the inputs are all non-negative)
ConstantCase ==
    /\ Found
    /\ fcall.args.thresholds[1] >= 0 /\ fcall.args.thresholds[2] >= 0
    /\ \E price \in 0..20 : fcall.args.prices = ConstantCurve(SampleCount, price)

\* C19: for a constant curve of a non-negative price, of any length and with
\* any non-negative thresholds, the result is None.
C19_ConstantCurveNone == ConstantCase => fcall.result = None

\* a constant curve long enough to be scanned, with samples in the future and
\* a positive 3 h threshold, was scanned
C19_Witness ==
    /\ ConstantCase
    /\ SampleCount >= 7
    /\ AllFuture
    /\ fcall.args.thresholds[2] > 0
    /\ p(0) > 0


-----------------------------------------------------------------------------
(* calculate_charge_start_time as a function, and the plans that
   update_charging_plan stores with it *)

StartInputs ==
    [charge_end : {3600, 7200}, current_soc : {0, 59, 60, 61, 94, 95, 96, 100},
     target_soc : {80, auto_charge_below_soc}]

\* a curve whose price rises at index 3
EarlyCurve == Curve(<<10, 10, 10, 20, 20, 20, 20>>)

\* the price sensor answers with one of two curves
StartResponses ==
    {PriceData(SubSeq(c, 1, 4), SubSeq(c, 5, 7)) : c \in {EarlyCurve, RisingCurve}}

\* what the SoC sensor may answer to /api/status
StatusSocResponses == StateResponses({60, 90, 100})

InitStart ==
    /\ Constructed
    /\ fcall \in {[fn |-> "start", args |-> a, applied |-> FALSE, result |-> 0] :
                    a \in StartInputs}

\* TibberOptimizer(config).calculate_charge_start_time(charge_end, current_soc, target_soc)
CalculateChargeStart ==
    /\ fcall.fn = "start"
    /\ ~fcall.applied
    /\ fcall' = [fcall EXCEPT
                   !.applied = TRUE,
                   !.result = calculate_charge_start_time(
                       fcall.args.charge_end, fcall.args.current_soc,
                       fcall.args.target_soc)]
    /\ UNCHANGED <<now, controller_running, battery_soc, mode, control_mode,
                   charging_plan, auto_optimization_enabled, inverter, loop, req,
                   reader, ucp, obs, hourly_consumption, kostal_api>>

\* /api/status, lines 286-293: the SoC of the sensor is stored when it is a number
api_status ==
    /\ \E soc \in StatusSocResponses :
         battery_soc' = IF has_data(get_state(soc)) /\ float_ok(get_state(soc))
                        THEN float(get_state(soc)) ELSE battery_soc
    /\ UNCHANGED <<now, controller_running, mode, control_mode, charging_plan,
                   auto_optimization_enabled, inverter, loop, req, reader, ucp,
                   obs, fcall, hourly_consumption, kostal_api>>

\* /api/recalculate_plan, one request after the other
NextStart ==
    \/ CalculateChargeStart
    \/ api_status
    \/ RecalculateReceive
    \/ UcpFetchOf("http", StartResponses)
    \/ UcpStore("http")
    \/ RecalculateRespond

SpecStart == InitStart /\ [][NextStart]_vars

\* calculate_charge_start_time has returned
Calculated == fcall.fn = "start" /\ fcall.applied

\* the duration between the returned start and charge_end, in seconds
Duration == fcall.args.charge_end - fcall.result

\* the function of C20: the start lies (target_soc - current_soc) / 10 *
\* charge_duration_per_10_percent minutes before charge_end when
\* current_soc < target_soc, and is charge_end itself otherwise
StartTimeAsStated ==
    Calculated =>
        /\ fcall.args.current_soc < fcall.args.target_soc
              => 10 * Duration = (fcall.args.target_soc - fcall.args.current_soc)
                                     * charge_duration_per_10_percent * 60
        /\ fcall.args.current_soc >= fcall.args.target_soc => Duration = 0
        /\ (fcall.args.current_soc = 60 /\ fcall.args.target_soc = 95)
              => Duration = 63 * 60

\* C20: calculate_charge_start_time returns the start as stated, and
\* planned_start <= planned_end holds in every stored plan.
C20_StartNotAfterEnd ==
    /\ StartTimeAsStated
    /\ (charging_plan.planned_start # None /\ charging_plan.planned_end # None)
          => fromisoformat(charging_plan.planned_start)
                <= fromisoformat(charging_plan.planned_end)


-----------------------------------------------------------------------------
(* update_charging_plan called again and again by /api/recalculate_plan, with
   every answer of the price sensor and the clock advancing between calls *)

\* the price sensor fails, or answers with an empty, a flat or a rising curve
UpdateResponses == PriceResponses \cup StartResponses

\* datetime.now() moves on between two statements
TimePasses ==
    /\ now < MaxNow
    /\ now' = now + ClockStep
    /\ UNCHANGED <<controller_running, battery_soc, mode, control_mode,
                   charging_plan, auto_optimization_enabled, inverter, loop, req,
                   reader, ucp, obs, fcall, hourly_consumption, kostal_api>>

NextUpdate ==
    \/ TimePasses
    \/ api_status
    \/ RecalculateReceive
    \/ UcpFetchOf("http", UpdateResponses)
    \/ UcpStore("http")
    \/ RecalculateRespond

SpecUpdate == Init /\ [][NextUpdate]_vars

\* this step of update_charging_plan ends it without a plan: no data, no
\* attributes, no prices or no charge end
FailedUpdate == ucp["http"].pc = "call" /\ ucp'["http"].pc = "ret"

\* this step of update_charging_plan writes last_calculated
WritesLastCalculated ==
    \/ FailedUpdate /\ charging_plan'.last_calculated # charging_plan.last_calculated
    \/ ucp["http"].pc = "last_calculated" /\ ucp'["http"].pc = "target_soc"

\* what find_optimal_charge_end_time returned in the recomputation this step
\* belongs to, as the plan would store it
ReturnedEnd ==
    IF ucp["http"].pc = "call" THEN None ELSE isoformat(ucp["http"].charge_end)

\* C21: whenever last_calculated is updated, the stored planned_end is what
\* find_optimal_charge_end_time returned in that same recomputation.
C21_PlannedEndIsOptimizerOutput ==
    [][WritesLastCalculated => charging_plan'.planned_end = ReturnedEnd]_vars


\* C22: when update_charging_plan fails, planned_start, planned_end and
\* target_soc are left unchanged and last_calculated is updated to the time
\* of the attempt.
C22_FailureStampsLastCalculated ==
    [][FailedUpdate =>
          /\ charging_plan'.planned_start = charging_plan.planned_start
          /\ charging_plan'.planned_end = charging_plan.planned_end
          /\ charging_plan'.target_soc = charging_plan.target_soc
          /\ charging_plan'.last_calculated = isoformat(now)]_vars


\* this step is a tick of the loop that read the SoC, recomputed the plan and
\* stored a new start
TickWithNewPlan ==
    /\ loop.pc = "tick"
    /\ obs'.tick.evaluated
    /\ plan_due(loop.last_plan_update, now)
    /\ charging_plan'.planned_start # None
    /\ charging_plan'.planned_start # charging_plan.planned_start

\* C23: within a tick the SoC is read before the plan is refreshed, so a plan
\* recomputed in a tick is computed from the SoC read in that same tick.
C23_PlanUsesSocOfSameTick ==
    [][TickWithNewPlan =>
          charging_plan'.planned_start =
              isoformat(calculate_charge_start_time(
                  fromisoformat(charging_plan'.planned_end), battery_soc',
                  auto_charge_below_soc))]_vars


-----------------------------------------------------------------------------
(* controller_loop step by step, with a clock fine enough to tell 300 s from
   301 s between two ticks *)

\* the seconds between the starts of two ticks: the sleep and the tick's own time
TickGaps == {300, 301}
\* the clock stops here
MaxCadence == 700

\* lines 1119 and 1036: the time until the next tick reads datetime.now()
Elapse ==
    /\ loop.pc = "tick"
    /\ \E d \in TickGaps :
         /\ now + d <= MaxCadence
         /\ now' = now + d
    /\ UNCHANGED <<controller_running, battery_soc, mode, control_mode,
                   charging_plan, auto_optimization_enabled, inverter, loop, req,
                   reader, ucp, obs, fcall, hourly_consumption, kostal_api>>

NextCadence ==
    \/ LoopStartup
    \/ update_charging_plan("loop")
    \/ LoopPlanDone
    \/ LoopRefresh
    \/ LoopRules
    \/ Elapse
    \/ ToggleAutomation

SpecCadence == Init /\ [][NextCadence]_vars


\* the seconds since the loop last invoked update_charging_plan
SinceLastUpdate == now - loop.last_plan_update[1]

\* this step is the head of a tick: the loop decides whether to refresh the plan
TickBegins == loop.pc = "tick" /\ loop'.pc \in {"refresh", "rules"}

\* C24: update_charging_plan is invoked at startup before the first rule
\* evaluation; a tick invokes it exactly when it begins more than 300 seconds
\* after the previous loop-driven invocation, with automation on or off.
C24_PlanCadence ==
    /\ [](loop.pc \in {"tick", "refresh", "rules"} => loop.last_plan_update # None)
    /\ [][(loop.pc = "startup" /\ loop'.pc # "startup")
            => loop'.pc = "startup_update" /\ ucp'["loop"].pc = "call"]_vars
    /\ [][TickBegins =>
            /\ loop'.pc = "refresh" <=> SinceLastUpdate > 300
            /\ loop'.pc = "refresh" => ucp'["loop"].pc = "call"]_vars
    /\ [][(loop.pc = "refresh" /\ loop'.pc = "rules")
            => loop'.last_plan_update = Some(now)]_vars

\* with automation switched off, a tick that begins 301 s after the last
\* invocation is refreshing the plan
C24_Witness ==
    /\ loop.pc = "refresh"
    /\ ~controller_running
    /\ SinceLastUpdate = 301


-----------------------------------------------------------------------------
(* ConsumptionLearner: the table hourly_consumption and its operations.
   Consumption is counted in tenths of a kWh, timestamps in seconds; the
   column created_at is left out. *)

\* learning_period_days of the configuration (28 by default)
learning_days == 2
\* the limits of lines 460-469 and 164-169: 0 and 50 kWh
max_consumption == 500
\* line 89: the value of an hour the manual profile lacks, 0.2
missing_hour_value == 2
\* app.py:197: the fallback of an hour without data, 1.0
default_fallback == 10
\* line 567: the value get_hourly_profile gives an hour without data, 0.5
profile_fallback == 5

Day == 86400
Hour == 3600

\* datetime.hour and datetime.replace(hour=0, minute=0, second=0, microsecond=0)
hour_of(t) == (t \div Hour) % 24
midnight(t) == (t \div Day) * Day

HourlyRow(t, hour, kwh, manual) ==
    [timestamp |-> isoformat(t), hour |-> hour, consumption_kwh |-> kwh,
     is_manual |-> manual]

\* INSERT OR REPLACE: timestamp is the primary key
insert_or_replace(rows, row) ==
    {r \in rows : r.timestamp # row.timestamp} \cup {row}

\* a purge that keeps no window: it deletes what is older than t
cleanup_without_window(rows, t) ==
    {r \in rows : ~(fromisoformat(r.timestamp) < t)}

\* _cleanup_old_data at time t: DELETE ... WHERE timestamp < cutoff
cleanup_old_data(rows, t) ==
    {r \in rows : ~(fromisoformat(r.timestamp) < t - learning_days * Day)}

\* record_consumption(timestamp, consumption_kwh) at time t
record_consumption(rows, timestamp, consumption_kwh, t) ==
    IF consumption_kwh < 0 THEN rows
    ELSE IF consumption_kwh > max_consumption THEN rows
    ELSE cleanup_old_data(
             insert_or_replace(rows, HourlyRow(timestamp, hour_of(timestamp), consumption_kwh, 0)),
             t)

\* the rows add_manual_profile writes at time t: learning_days days of 24 hours
manual_rows(profile, t) ==
    {HourlyRow(midnight(t - learning_days * Day + day * Day) + hour * Hour, hour,
               IF hour \in DOMAIN profile THEN profile[hour] ELSE missing_hour_value,
               1) :
        day \in 0..(learning_days - 1), hour \in 0..23}

\* add_manual_profile(profile) at time t
add_manual_profile(rows, profile, t) ==
    LET new == manual_rows(profile, t)
    IN  {r \in rows : \A n \in new : r.timestamp # n.timestamp} \cup new

\* lines 164-169: a value below 0 becomes 0, one above 50 becomes 50
clamped(consumption) ==
    IF consumption < 0 THEN 0
    ELSE IF consumption > max_consumption THEN max_consumption
    ELSE consumption

\* A day_entry is [date, hours, text]: text holds the hours whose supplied
\* value is no number (a string, a null), for which float() raises at line 161.
\* The hours the loop of lines 160-183 writes before it ends: all 24, or those
\* before the first value that is no number.
hours_written(day_entry) ==
    IF Len(day_entry.hours) # 24 THEN 0
    ELSE IF day_entry.text = {} THEN 24
    ELSE CHOOSE hour \in day_entry.text : \A other \in day_entry.text : hour <= other

\* lines 153-157 and 185-188: the day is counted in skipped_count
day_skipped(day_entry) ==
    Len(day_entry.hours) # 24 \/ day_entry.text # {}

\* the rows one day_entry of import_detailed_history writes
day_rows(day_entry) ==
    {HourlyRow(midnight(day_entry.date) + hour * Hour, hour,
               clamped(day_entry.hours[hour + 1]), 1) :
        hour \in 0..(hours_written(day_entry) - 1)}

\* the loop of lines 142-188 from entry i on
RECURSIVE import_days(_, _, _)
import_days(rows, daily_data, i) ==
    IF i > Len(daily_data) THEN rows
    ELSE LET new == day_rows(daily_data[i])
         IN  import_days({r \in rows : \A n \in new : r.timestamp # n.timestamp} \cup new,
                         daily_data, i + 1)

\* import_detailed_history(daily_data) at time t
import_detailed_history(rows, daily_data, t) ==
    cleanup_old_data(import_days(rows, daily_data, 1), t)

\* imported_count and skipped_count from entry i on
RECURSIVE imported_count(_, _)
imported_count(daily_data, i) ==
    IF i > Len(daily_data) THEN 0
    ELSE hours_written(daily_data[i]) + imported_count(daily_data, i + 1)

RECURSIVE skipped_count(_, _)
skipped_count(daily_data, i) ==
    IF i > Len(daily_data) THEN 0
    ELSE (IF day_skipped(daily_data[i]) THEN 1 ELSE 0) + skipped_count(daily_data, i + 1)

\* lines 197-201: what import_detailed_history returns
import_result(daily_data) ==
    [imported_hours |-> imported_count(daily_data, 1),
     skipped_days |-> skipped_count(daily_data, 1),
     success |-> skipped_count(daily_data, 1) = 0]

\* lines 227-278: the rows of a CSV file that give a date and 24 numbers
parsed_csv(csv) ==
    SelectSeq(csv, LAMBDA row : row.date_ok /\ Len(row.hours) = 24)

\* import_from_csv(csv_content) at time t
import_from_csv(rows, csv, t) ==
    IF parsed_csv(csv) = <<>> THEN rows
    ELSE import_detailed_history(
             rows, [i \in 1..Len(parsed_csv(csv)) |->
                       [date |-> parsed_csv(csv)[i].date, hours |-> parsed_csv(csv)[i].hours,
                        text |-> {}]],
             t)

\* what import_from_csv returns: lines 280-286 or the result of line 291
csv_result(csv) ==
    IF parsed_csv(csv) = <<>>
    THEN [imported_hours |-> 0, skipped_days |-> 0, success |-> FALSE]
    ELSE import_result([i \in 1..Len(parsed_csv(csv)) |->
                           [date |-> parsed_csv(csv)[i].date,
                            hours |-> parsed_csv(csv)[i].hours, text |-> {}]])

clear_all_manual_data(rows) == {r \in rows : r.is_manual # 1}
clear_all_data(rows) == {}

\* SUM(consumption_kwh)
RECURSIVE sum_kwh(_)
sum_kwh(rows) ==
    IF rows = {} THEN 0
    ELSE LET r == CHOOSE x \in rows : TRUE
         IN  r.consumption_kwh + sum_kwh(rows \ {r})

\* a value sum / count, and the equality of two such values
Ratio(sum, count) == [sum |-> sum, count |-> count]
same_value(a, b) == a.sum * b.count = b.sum * a.count

\* AVG(consumption_kwh) ... WHERE hour = ?
avg_at(rows, hour) ==
    LET at == {r \in rows : r.hour = hour}
    IN  Ratio(sum_kwh(at), Cardinality(at))

\* get_average_consumption(hour): `if result and result[0]` is false for no
\* rows and for an average of 0.0
get_average_consumption(rows, hour) ==
    IF \E r \in rows : r.hour = hour
    THEN IF avg_at(rows, hour).sum # 0 THEN avg_at(rows, hour)
         ELSE Ratio(default_fallback, 1)
    ELSE Ratio(default_fallback, 1)

\* get_hourly_profile()
get_hourly_profile(rows) ==
    [hour \in 0..23 |->
        IF \E r \in rows : r.hour = hour THEN avg_at(rows, hour)
        ELSE Ratio(profile_fallback, 1)]


-----------------------------------------------------------------------------
(* The operations of the consumption store in any order.  fcall holds the
   last operation and its arguments. *)

\* what the consumption sensor may report, in tenths of a kWh
SensorKwh == {-1, 3, 4, 501}

\* the half hours at which the store is used
StoreStep == Hour \div 2
MaxStoreNow == 1800

\* manual_load_profile of the configuration: hour -> consumption
Profiles ==
    {[hour \in 0..23 |-> 3],
     [hour \in 0..23 |-> IF hour = 0 THEN 0 ELSE 3],
     [hour \in 0..23 |-> 600],
     [hour \in 0..23 \ {5} |-> 3]}

\* one day of import_detailed_history: a date and the same value for n hours
DayEntry(day, n, kwh) ==
    [date |-> day * Day, hours |-> [i \in 1..n |-> kwh], text |-> {}]

\* a day of 24 values of which the one for bad_hour is a text
DamagedDay(day, kwh, bad_hour) ==
    [date |-> day * Day, hours |-> [i \in 1..24 |-> kwh], text |-> {bad_hour}]

\* the lists of days handed to import_detailed_history
DailyData ==
    {<<DayEntry(-1, 24, 3)>>,
     <<DayEntry(-1, 24, 3), DayEntry(0, 24, 7)>>,
     <<DayEntry(-1, 24, 3), DayEntry(-1, 24, 7)>>,
     <<DayEntry(-3, 24, 3), DayEntry(-1, 24, 7)>>,
     <<DayEntry(-1, 24, 501), DayEntry(0, 24, -1)>>,
     <<DayEntry(-1, 23, 3)>>,
     <<DayEntry(-1, 23, 3), DayEntry(0, 24, 7)>>,
     <<DamagedDay(-1, 3, 5)>>}

\* a row of a CSV file: whether datum parses, the date, the numbers h0..h23 found
CsvRow(date_ok, day, n, kwh) ==
    [date_ok |-> date_ok, date |-> day * Day, hours |-> [i \in 1..n |-> kwh]]

CsvFiles ==
    {<<CsvRow(TRUE, -1, 24, 7)>>,
     <<CsvRow(FALSE, -1, 24, 7)>>,
     <<CsvRow(TRUE, -1, 24, 7), CsvRow(TRUE, 0, 20, 3)>>}

\* every step but those of the store leaves the rest of the state alone
StoreFrame ==
    UNCHANGED <<controller_running, battery_soc, mode, control_mode,
                charging_plan, auto_optimization_enabled, inverter, loop, req,
                reader, ucp, obs, kostal_api>>

\* controller_loop, lines 1050-1058: record_consumption(now, consumption_kwh)
RecordConsumption ==
    /\ \E kwh \in SensorKwh :
         /\ hourly_consumption' = record_consumption(hourly_consumption, now, kwh, now)
         /\ fcall' = [fn |-> "record_consumption",
                      args |-> [timestamp |-> now, consumption_kwh |-> kwh]]
    /\ now' = now
    /\ StoreFrame

\* app.py:203-206: add_manual_profile(manual_profile) when the add-on starts
AddManualProfile ==
    /\ \E profile \in Profiles :
         /\ hourly_consumption' = add_manual_profile(hourly_consumption, profile, now)
         /\ fcall' = [fn |-> "add_manual_profile", args |-> [profile |-> profile]]
    /\ now' = now
    /\ StoreFrame

\* POST /api/consumption_data: import_detailed_history(data)
ImportDetailedHistory ==
    /\ \E daily_data \in DailyData :
         /\ hourly_consumption' = import_detailed_history(hourly_consumption, daily_data, now)
         /\ fcall' = [fn |-> "import_detailed_history", args |-> [daily_data |-> daily_data],
                      result |-> import_result(daily_data)]
    /\ now' = now
    /\ StoreFrame

\* POST /api/consumption_import_csv: import_from_csv(csv_content)
ImportFromCsv ==
    /\ \E csv \in CsvFiles :
         /\ hourly_consumption' = import_from_csv(hourly_consumption, csv, now)
         /\ fcall' = [fn |-> "import_from_csv", args |-> [csv |-> csv],
                      result |-> csv_result(csv)]
    /\ now' = now
    /\ StoreFrame

ClearAllManualData ==
    /\ hourly_consumption' = clear_all_manual_data(hourly_consumption)
    /\ fcall' = [fn |-> "clear_all_manual_data", args |-> <<>>]
    /\ now' = now
    /\ StoreFrame

ClearAllData ==
    /\ hourly_consumption' = clear_all_data(hourly_consumption)
    /\ fcall' = [fn |-> "clear_all_data", args |-> <<>>]
    /\ now' = now
    /\ StoreFrame

\* time passes between two operations
StoreClock ==
    /\ now + StoreStep <= MaxStoreNow
    /\ now' = now + StoreStep
    /\ fcall' = NoCall
    /\ UNCHANGED hourly_consumption
    /\ StoreFrame

NextStore ==
    \/ RecordConsumption
    \/ AddManualProfile
    \/ ImportDetailedHistory
    \/ ImportFromCsv
    \/ ClearAllManualData
    \/ ClearAllData
    \/ StoreClock

SpecStore == Init /\ [][NextStore]_vars


-----------------------------------------------------------------------------
(* Claims about the consumption store, under SpecStore *)

InRange(kwh) == 0 <= kwh /\ kwh <= max_consumption

\* C25: after any sequence of record_consumption, add_manual_profile,
\* import_detailed_history, import_from_csv and clear operations every stored
\* sample has a consumption between 0 and 50 kWh.
C25_StoredSamplesInRange ==
    \A r \in hourly_consumption : InRange(r.consumption_kwh)

\* what does hold: a sample out of range is one that add_manual_profile wrote
OutOfRangeOnlyFromProfile ==
    \A r \in hourly_consumption :
        InRange(r.consumption_kwh) \/ (r.is_manual = 1 /\ r.consumption_kwh = 600)


\* the last operation was a record_consumption that took its value
Recorded ==
    /\ fcall.fn = "record_consumption"
    /\ InRange(fcall.args.consumption_kwh)

\* the hour a timestamp lies in, and the samples stored for that clock hour
start_of_hour(t) == (t \div Hour) * Hour
SamplesOfClockHour(t) ==
    {r \in hourly_consumption :
        start_of_hour(fromisoformat(r.timestamp)) = start_of_hour(t)}

\* C26: record_consumption stores the sample under the timestamp rounded down
\* to the hour, so after a recording the clock hour of its timestamp has
\* exactly one row, which holds the value just recorded (a second recording in
\* the same clock hour replaces the first and adds no row).
C26_OneRowPerClockHour ==
    Recorded =>
        SamplesOfClockHour(fcall.args.timestamp) =
            {HourlyRow(start_of_hour(fcall.args.timestamp),
                       hour_of(fcall.args.timestamp),
                       fcall.args.consumption_kwh, 0)}

\* what does hold: the sample is stored under the timestamp as it was given,
\* and replaces only a row of exactly that timestamp
RecordedAsGiven ==
    Recorded =>
        /\ HourlyRow(fcall.args.timestamp, hour_of(fcall.args.timestamp),
                     fcall.args.consumption_kwh, 0) \in hourly_consumption
        /\ \A r \in hourly_consumption :
               r.timestamp = isoformat(fcall.args.timestamp)
                   => r.consumption_kwh = fcall.args.consumption_kwh

\* two recordings in one clock hour have left two rows
TwoRowsInOneClockHour ==
    /\ Recorded
    /\ \E r, q \in SamplesOfClockHour(fcall.args.timestamp) :
           r.is_manual = 0 /\ q.is_manual = 0 /\ r.timestamp # q.timestamp


\* a step of one of the operations that write manual samples
ManualWrite ==
    fcall'.fn \in {"add_manual_profile", "import_detailed_history", "import_from_csv"}

\* the learned samples that are within the retention window
LearnedSamples ==
    {r \in hourly_consumption :
        r.is_manual = 0 /\ fromisoformat(r.timestamp) >= now - learning_days * Day}

\* C27: add_manual_profile, import_detailed_history and import_from_csv never
\* replace or change a stored non-manual sample of the same hour timestamp.
C27_ManualNeverReplacesLearned ==
    [][ManualWrite => LearnedSamples \subseteq hourly_consumption']_vars

\* what does hold: they keep the learned samples that do not lie on the hour
C27_LearnedOffTheHourKept ==
    [][ManualWrite =>
          \A r \in LearnedSamples :
              fromisoformat(r.timestamp) # start_of_hour(fromisoformat(r.timestamp))
                  => r \in hourly_consumption']_vars


\* no stored sample is older than the retention window
NothingOlderThanWindow ==
    \A r \in hourly_consumption :
        fromisoformat(r.timestamp) >= now - learning_days * Day

\* C28: when a record_consumption call has returned, the table holds no sample
\* older than now - learning_days: the purge runs in every call.
C28_PurgedAfterEveryRecording ==
    fcall.fn = "record_consumption" => NothingOlderThanWindow

\* what does hold: it is so after the calls that took their value
PurgedAfterAcceptedRecording ==
    Recorded => NothingOlderThanWindow

\* a recording that took its value has purged a sample
AcceptedRecordingPurged ==
    /\ Recorded
    /\ now = StoreStep
    /\ \E r \in hourly_consumption : r.is_manual = 1 /\ r.hour = 1
    /\ \A r \in hourly_consumption : r.is_manual = 1 => r.timestamp # isoformat(0 - learning_days * Day)


\* the last operation was add_manual_profile with a profile that gives every
\* hour a value between 0 and 50 kWh
ProfileAdded ==
    /\ fcall.fn = "add_manual_profile"
    /\ DOMAIN fcall.args.profile = 0..23
    /\ \A hour \in 0..23 : InRange(fcall.args.profile[hour])

\* C29: after add_manual_profile(p), with every value of p between 0 and 50,
\* get_average_consumption(h) returns exactly p[h] for every hour h in 0..23.
C29_AverageIsProfileValue ==
    ProfileAdded =>
        \A hour \in 0..23 :
            same_value(get_average_consumption(hourly_consumption, hour),
                       Ratio(fcall.args.profile[hour], 1))

\* what does hold: in a table that holds the rows of the profile only, it is so
\* for the hours whose value is not 0
AverageIsNonZeroProfileValue ==
    (ProfileAdded /\ hourly_consumption = manual_rows(fcall.args.profile, now)) =>
        \A hour \in 0..23 :
            fcall.args.profile[hour] # 0 =>
                same_value(get_average_consumption(hourly_consumption, hour),
                           Ratio(fcall.args.profile[hour], 1))

\* the fallback is returned for an hour whose profile value is 0
FallbackForZeroHour ==
    /\ ProfileAdded
    /\ hourly_consumption = manual_rows(fcall.args.profile, now)
    /\ fcall.args.profile[0] = 0
    /\ get_average_consumption(hourly_consumption, 0) = Ratio(default_fallback, 1)
    /\ get_average_consumption(hourly_consumption, 1) = Ratio(3 * learning_days, learning_days)


\* the days of the last import_detailed_history
ImportedDays == fcall.args.daily_data

\* the sum over the supplied days of the values given for an hour, as they
\* were supplied and as lines 164-169 clamp them
RECURSIVE sum_supplied(_, _, _)
sum_supplied(days, hour, i) ==
    IF i > Len(days) THEN 0
    ELSE days[i].hours[hour + 1] + sum_supplied(days, hour, i + 1)

RECURSIVE sum_clamped(_, _, _)
sum_clamped(days, hour, i) ==
    IF i > Len(days) THEN 0
    ELSE clamped(days[i].hours[hour + 1]) + sum_clamped(days, hour, i + 1)

\* every supplied day has its 24 values
FullDays(days) ==
    \A i \in 1..Len(days) : Len(days[i].hours) = 24 /\ days[i].text = {}

\* the supplied days have different dates, none before the retention window
DistinctDays(days) ==
    \A i, j \in 1..Len(days) : i # j => midnight(days[i].date) # midnight(days[j].date)
InWindow(days, t) ==
    \A i \in 1..Len(days) : midnight(days[i].date) >= t - learning_days * Day

\* C30 as stated: after import_detailed_history(days), get_hourly_profile()[h]
\* is for every hour h the mean of hours[h] over the supplied days.
C30_ProfileIsMeanOfSupplied ==
    (fcall.fn = "import_detailed_history" /\ FullDays(ImportedDays)) =>
        \A hour \in 0..23 :
            same_value(get_hourly_profile(hourly_consumption)[hour],
                       Ratio(sum_supplied(ImportedDays, hour, 1), Len(ImportedDays)))

\* C30: after import_detailed_history(days) into an empty table, with days of
\* 24 values each and of different dates within the retention window,
\* get_hourly_profile()[h] is for every hour h the mean over the supplied days
\* of hours[h] clamped to 0..50 kWh.
C30_ProfileIsMeanOfClamped ==
    [][(/\ fcall'.fn = "import_detailed_history"
        /\ hourly_consumption = {}
        /\ FullDays(fcall'.args.daily_data)
        /\ DistinctDays(fcall'.args.daily_data)
        /\ InWindow(fcall'.args.daily_data, now))
          => \A hour \in 0..23 :
                 same_value(get_hourly_profile(hourly_consumption')[hour],
                            Ratio(sum_clamped(fcall'.args.daily_data, hour, 1),
                                  Len(fcall'.args.daily_data)))]_vars

\* two days of 0.3 and 0.7 kWh have been imported and the profile gives 0.5
C30_Witness ==
    /\ fcall.fn = "import_detailed_history"
    /\ ImportedDays = <<DayEntry(-1, 24, 3), DayEntry(0, 24, 7)>>
    /\ Cardinality(hourly_consumption) = 48
    /\ \A hour \in 0..23 : get_hourly_profile(hourly_consumption)[hour] = Ratio(10, 2)


\* a CSV row that import_from_csv skips, a day that import_detailed_history skips
CsvRowRejected(row) == ~row.date_ok \/ Len(row.hours) # 24
SomeCsvRowRejected == \E i \in 1..Len(fcall.args.csv) : CsvRowRejected(fcall.args.csv[i])
SomeDayRejected == \E i \in 1..Len(ImportedDays) : day_skipped(ImportedDays[i])

\* C31: the success flag import_from_csv and import_detailed_history return is
\* true only if no input row was rejected: a skipped CSV row and a skipped day
\* each make it false.
C31_SuccessOnlyIfNothingRejected ==
    /\ fcall.fn = "import_from_csv" => (fcall.result.success => ~SomeCsvRowRejected)
    /\ fcall.fn = "import_detailed_history" => (fcall.result.success => ~SomeDayRejected)

\* what does hold: it is so for import_detailed_history, and the days that are
\* valid and within the retention window are in the table afterwards
SuccessOnlyIfNoDaySkipped ==
    fcall.fn = "import_detailed_history" =>
        /\ fcall.result.success <=> ~SomeDayRejected
        /\ \A i \in 1..Len(ImportedDays) :
               (~day_skipped(ImportedDays[i]) /\ InWindow(<<ImportedDays[i]>>, now))
                   => \A hour \in 0..23 :
                          \E r \in hourly_consumption :
                              /\ r.timestamp = isoformat(midnight(ImportedDays[i].date) + hour * Hour)
                              /\ r.is_manual = 1

\* a day was skipped, success is false and the valid day is in the table
ValidDayImportedBesideSkipped ==
    /\ fcall.fn = "import_detailed_history"
    /\ ImportedDays = <<DayEntry(-1, 23, 3), DayEntry(0, 24, 7)>>
    /\ ~fcall.result.success
    /\ fcall.result.imported_hours = 24
    /\ \E r \in hourly_consumption : r.timestamp = isoformat(0) /\ r.consumption_kwh = 7

\* a CSV file with a skipped row was imported with success
CsvSuccessDespiteSkippedRow ==
    /\ fcall.fn = "import_from_csv"
    /\ SomeCsvRowRejected
    /\ fcall.result = [imported_hours |-> 24, skipped_days |-> 0, success |-> TRUE]


-----------------------------------------------------------------------------
(* KostalAPI request by request: set_external_control, _ensure_authenticated
   and login, one call at a time.  Session ids are the numbers the inverter
   hands out. *)

\* the sessions the inverter hands out in a run
MaxSessions == 2

\* How the inverter answers a request: 200 with what is expected; another
\* status; no answer (timeout, connection error); 200 with a body that lacks
\* the key read or is no JSON; for auth/me, 200 without authenticated = true.
StepAnswers == {"ok", "denied", "timeout", "malformed"}
MeAnswers == {"ok", "unauthenticated", "denied", "timeout"}
GetAnswers == {"ok", "denied", "timeout", "malformed"}
PutAnswers == {"ok", "denied", "timeout"}

Sent(k, request, answer) ==
    [k EXCEPT !.sent = Append(@, [request |-> request, answer |-> answer])]

\* _ensure_authenticated, line 258: login() is called
enter_login(k) ==
    [k EXCEPT !.pc = "auth_start", !.logins = @ + 1, !.login = "running",
              !.before = [session_id |-> k.session_id, headers |-> k.headers,
                          session_file |-> k.session_file]]

\* a login() that takes a failed step for a passed one and goes on
login_goes_on(k) == [k EXCEPT !.pc = "get_setting", !.login = "true"]

\* login() returns False, and with it set_external_control (lines 272-274)
login_false(k) == [k EXCEPT !.pc = "idle", !.login = "false", !.result = "false"]

\* set_external_control returns False after its requests (lines 304-310)
returns_false(k) == [k EXCEPT !.pc = "idle", !.result = "false"]

\* lines 230-241: the session file is read when there are no headers
load_session(k, readable) ==
    IF k.headers = None /\ k.session_file # None /\ readable
    THEN [k EXCEPT !.session_id = k.session_file, !.headers = k.session_file]
    ELSE k

SessionFrame ==
    UNCHANGED <<now, controller_running, battery_soc, mode, control_mode,
                charging_plan, auto_optimization_enabled, loop, req, reader,
                ucp, obs, fcall, hourly_consumption>>

\* set_external_control(enabled) is called: _ensure_authenticated up to its
\* first request
SetExternalControlBegin ==
    /\ kostal_api.pc = "idle"
    /\ kostal_api.issued < MaxSessions
    /\ \E enabled \in BOOLEAN, readable \in BOOLEAN :
         LET loaded == load_session(kostal_api, readable)
             called == [loaded EXCEPT !.enabled = enabled, !.sent = <<>>, !.logins = 0,
                                      !.login = "none", !.result = "none"]
         IN  kostal_api' = IF called.headers # None
                           THEN [called EXCEPT !.pc = "verify"]
                           ELSE enter_login(called)
    /\ UNCHANGED inverter
    /\ SessionFrame

\* lines 244-254: GET auth/me with the headers held
VerifySession ==
    /\ kostal_api.pc = "verify"
    /\ \E answer \in MeAnswers :
         kostal_api' = IF answer = "ok"
                       THEN [Sent(kostal_api, "auth/me", answer) EXCEPT !.pc = "get_setting"]
                       ELSE enter_login(Sent(kostal_api, "auth/me", answer))
    /\ UNCHANGED inverter
    /\ SessionFrame

\* login, lines 82-97: POST auth/start
AuthStart ==
    /\ kostal_api.pc = "auth_start"
    /\ \E answer \in StepAnswers :
         kostal_api' = IF answer = "ok"
                       THEN [Sent(kostal_api, "auth/start", answer) EXCEPT !.pc = "auth_finish"]
                       ELSE login_false(Sent(kostal_api, "auth/start", answer))
    /\ UNCHANGED inverter
    /\ SessionFrame

\* login, lines 119-128: POST auth/finish
AuthFinish ==
    /\ kostal_api.pc = "auth_finish"
    /\ \E answer \in StepAnswers :
         kostal_api' = IF answer = "ok"
                       THEN [Sent(kostal_api, "auth/finish", answer) EXCEPT !.pc = "create_session"]
                       ELSE login_false(Sent(kostal_api, "auth/finish", answer))
    /\ UNCHANGED inverter
    /\ SessionFrame

\* login, lines 152-175: POST auth/create_session; on 200 the session id is
\* kept, written to the session file (a failure to write is only logged) and
\* put into the headers
CreateSession ==
    /\ kostal_api.pc = "create_session"
    /\ \E answer \in StepAnswers, saved \in BOOLEAN :
         kostal_api' =
            IF answer = "ok"
            THEN [Sent(kostal_api, "auth/create_session", answer) EXCEPT
                     !.pc = "auth_me",
                     !.issued = @ + 1,
                     !.session_id = Some(kostal_api.issued + 1),
                     !.session_file = IF saved THEN Some(kostal_api.issued + 1) ELSE @,
                     !.headers = Some(kostal_api.issued + 1)]
            ELSE login_false(Sent(kostal_api, "auth/create_session", answer))
    /\ UNCHANGED inverter
    /\ SessionFrame

\* login, lines 178-191: GET auth/me
AuthMe ==
    /\ kostal_api.pc = "auth_me"
    /\ \E answer \in MeAnswers :
         kostal_api' = IF answer = "ok"
                       THEN [Sent(kostal_api, "auth/me", answer) EXCEPT
                                !.pc = "get_setting", !.login = "true"]
                       ELSE login_false(Sent(kostal_api, "auth/me", answer))
    /\ UNCHANGED inverter
    /\ SessionFrame

\* set_external_control, lines 278-280: GET of the current setting; its status
\* is not looked at, its body is read as JSON
GetSetting ==
    /\ kostal_api.pc = "get_setting"
    /\ \E answer \in GetAnswers :
         kostal_api' = IF answer \in {"ok", "denied"}
                       THEN [Sent(kostal_api, "GET settings", answer) EXCEPT !.pc = "put_settings"]
                       ELSE returns_false(Sent(kostal_api, "GET settings", answer))
    /\ UNCHANGED inverter
    /\ SessionFrame

\* set_external_control, lines 292-306: PUT /settings
PutSettings ==
    /\ kostal_api.pc = "put_settings"
    /\ \E answer \in PutAnswers :
         /\ kostal_api' = IF answer = "ok"
                          THEN [Sent(kostal_api, "PUT settings", answer) EXCEPT
                                   !.pc = "idle", !.result = "true"]
                          ELSE returns_false(Sent(kostal_api, "PUT settings", answer))
         /\ inverter' = set_external_control(inverter, kostal_api.enabled,
                                             IF answer = "ok" THEN "ok" ELSE "http_error")
    /\ SessionFrame

\* the add-on is restarted: a new KostalAPI object (lines 44-48); the session
\* file is gone if __del__ got to remove it (lines 218-219), else it is kept
Restart ==
    /\ kostal_api.pc = "idle"
    /\ \E removed \in BOOLEAN :
         kostal_api' = [NoSession EXCEPT
                           !.session_file = IF removed THEN None ELSE kostal_api.session_file,
                           !.issued = kostal_api.issued]
    /\ UNCHANGED inverter
    /\ SessionFrame

NextSession ==
    \/ SetExternalControlBegin
    \/ VerifySession
    \/ AuthStart
    \/ AuthFinish
    \/ CreateSession
    \/ AuthMe
    \/ GetSetting
    \/ PutSettings
    \/ Restart

SpecSession == Init /\ [][NextSession]_vars


-----------------------------------------------------------------------------
(* Claims about the KostalAPI client, under SpecSession *)

\* an answer that makes a step of the call fail
Failed(entry) ==
    /\ entry.answer # "ok"
    /\ ~(entry.request = "GET settings" /\ entry.answer = "denied")

\* the call has reported failure to its caller
FailureReported == kostal_api.pc = "idle" /\ kostal_api.result = "false"

\* the login() calls made after the first failed step of the call
LoginsAfterFailure ==
    {i \in 1..Len(kostal_api.sent) :
        /\ kostal_api.sent[i].request = "auth/start"
        /\ \E j \in 1..(i - 1) : Failed(kostal_api.sent[j])}

\* C32: when a step of an authenticated operation fails, the client discards
\* the cached session, in memory and on disk, and calls login() again exactly
\* once within that operation before it reports failure.
C32_InvalidateAndRetryOnce ==
    /\ FailureReported => Cardinality(LoginsAfterFailure) = 1
    /\ (kostal_api.pc = "auth_start" /\ kostal_api.sent # <<>>) =>
           kostal_api.before = [session_id |-> None, headers |-> None, session_file |-> None]

\* what does hold: a call makes at most one login(), and makes it when it has
\* no session or finds the held one invalid
AtMostOneLogin ==
    /\ kostal_api.logins <= 1
    /\ (/\ kostal_api.sent # <<>>
        /\ kostal_api.sent[1].request = "auth/me"
        /\ kostal_api.sent[1].answer # "ok") => kostal_api.logins = 1

\* the PUT failed and failure was reported without another login()
PutFailedWithoutRetry ==
    /\ FailureReported
    /\ kostal_api.sent[Len(kostal_api.sent)] = [request |-> "PUT settings", answer |-> "denied"]
    /\ kostal_api.sent[1] = [request |-> "auth/me", answer |-> "ok"]
    /\ kostal_api.logins = 0

\* login() is entered for an invalid session that is still held and on disk
LoginWithSessionKept ==
    /\ kostal_api.pc = "auth_start"
    /\ kostal_api.sent # <<>>
    /\ kostal_api.headers # None
    /\ kostal_api.session_file = kostal_api.headers


\* the requests of login() in their order
LoginRequests == <<"auth/start", "auth/finish", "auth/create_session", "auth/me">>

\* where in sent the login() of the call begins (0: no login() so far), and
\* the last of its requests sent so far
LoginAt ==
    IF \E i \in 1..Len(kostal_api.sent) : kostal_api.sent[i].request = "auth/start"
    THEN CHOOSE i \in 1..Len(kostal_api.sent) : kostal_api.sent[i].request = "auth/start"
    ELSE 0
LoginLast ==
    IF Len(kostal_api.sent) < LoginAt + 3 THEN Len(kostal_api.sent) ELSE LoginAt + 3

\* the held session was confirmed by the auth/me of _ensure_authenticated
SessionVerified ==
    /\ kostal_api.sent # <<>>
    /\ kostal_api.sent[1] = [request |-> "auth/me", answer |-> "ok"]

\* C33: login() sends auth/start, auth/finish, auth/create_session, auth/me in
\* this order, each only after the one before was answered 200; it returns
\* True only if all four succeeded and auth/me reported authenticated; when a
\* step fails nothing more is sent and it returns False.  PUT /settings is
\* sent only after a session was verified or login() returned True.
C33_LoginOrder ==
    /\ LoginAt = 0 =>
          /\ kostal_api.login \in {"none", "running"}
          /\ \A i \in 1..Len(kostal_api.sent) :
                kostal_api.sent[i].request \in {"auth/me", "GET settings", "PUT settings"}
    /\ LoginAt # 0 =>
          /\ \A i \in 1..(LoginAt - 1) :
                i = 1 /\ kostal_api.sent[i].request = "auth/me" /\ kostal_api.sent[i].answer # "ok"
          /\ \A i \in LoginAt..LoginLast :
                /\ kostal_api.sent[i].request = LoginRequests[i - LoginAt + 1]
                /\ i > LoginAt => kostal_api.sent[i - 1].answer = "ok"
                /\ kostal_api.sent[i].answer # "ok" =>
                      /\ Len(kostal_api.sent) = i
                      /\ kostal_api.login = "false"
                      /\ FailureReported
          /\ \A i \in (LoginLast + 1)..Len(kostal_api.sent) :
                kostal_api.sent[i].request \in {"GET settings", "PUT settings"}
          /\ kostal_api.login = "true" <=>
                /\ Len(kostal_api.sent) >= LoginAt + 3
                /\ \A i \in LoginAt..(LoginAt + 3) : kostal_api.sent[i].answer = "ok"
    /\ (\/ kostal_api.pc = "put_settings"
        \/ \E i \in 1..Len(kostal_api.sent) : kostal_api.sent[i].request = "PUT settings")
          => (SessionVerified \/ kostal_api.login = "true")

\* a call that found its session invalid, logged in with all four requests
\* and wrote the setting
C33_Witness ==
    /\ kostal_api.pc = "idle"
    /\ kostal_api.result = "true"
    /\ kostal_api.login = "true"
    /\ LoginAt = 2
    /\ Len(kostal_api.sent) = 7
    /\ kostal_api.sent[7] = [request |-> "PUT settings", answer |-> "ok"]
    /\ inverter.extern


-----------------------------------------------------------------------------
(* Operator errors: /api/control with an unknown action and /api/adjust_power *)

\* the powers an operator asks api_adjust_power for
AdjustedPowers == {1000}

\* the request served last, with the status it was answered with
Answered(kind, power, calls, status) ==
    [kind |-> kind, pc |-> "idle", power |-> power, todo |-> <<>>, calls |-> calls,
     status |-> status]

\* api_adjust_power, line 574: the power is written only while charging
always_honored(inverter_mode) == TRUE
honored(inverter_mode) == inverter_mode \in ChargingModes

\* api_adjust_power
api_adjust_power ==
    /\ \E power \in AdjustedPowers :
         IF honored(mode)
         THEN \E outcomes \in OutcomeSeqs(<<WriteBatteryPower(manual_charge_power(power))>>) :
                /\ inverter' = run_calls(inverter, <<WriteBatteryPower(manual_charge_power(power))>>, outcomes)
                /\ req' = Answered("adjust_power", power,
                                   log_calls(<<WriteBatteryPower(manual_charge_power(power))>>, outcomes),
                                   IF outcomes[1] = "ok" THEN 200 ELSE 500)
         ELSE /\ inverter' = inverter
              /\ req' = Answered("adjust_power", power, <<>>, 400)
    /\ loop' = [loop EXCEPT !.to = "none", !.calls = <<>>]
    /\ obs' = AfterRequest(obs)
    /\ UNCHANGED <<now, controller_running, battery_soc, mode, control_mode,
                   charging_plan, auto_optimization_enabled, reader, ucp, fcall,
                   hourly_consumption, kostal_api>>

\* api_control, lines 487-492: an action that is none of the known ones
api_control_unknown ==
    /\ req' = Answered("unknown", 0, <<>>, 400)
    /\ loop' = [loop EXCEPT !.to = "none", !.calls = <<>>]
    /\ obs' = AfterRequest(obs)
    /\ UNCHANGED <<now, controller_running, battery_soc, mode, control_mode,
                   charging_plan, auto_optimization_enabled, inverter, reader, ucp,
                   fcall, hourly_consumption, kostal_api>>

NextOperator ==
    \/ Startup
    \/ Tick
    \/ StartCharging
    \/ StopCharging
    \/ api_adjust_power
    \/ api_control_unknown

SpecOperator == Init /\ [][NextOperator]_vars


\* a step that serves an /api/control request with an unknown action, or an
\* /api/adjust_power request received while the mode is no charging mode
RejectedRequest ==
    \/ req'.kind = "unknown"
    \/ req'.kind = "adjust_power" /\ mode \notin ChargingModes

\* C34: such a request is answered with status 400 and causes no setpoint
\* write, no external-control toggle and no change of mode, control_mode or
\* controller_running.
C34_OperatorErrorChangesNothing ==
    [][RejectedRequest =>
          /\ req'.status = 400
          /\ req'.calls = <<>>
          /\ UNCHANGED <<inverter, mode, control_mode, controller_running>>]_vars

\* adjust_power was refused after a manual charge had been started and stopped
C34_Witness ==
    /\ req.kind = "adjust_power"
    /\ req.status = 400
    /\ req.calls = <<>>
    /\ mode = "automatic"
    /\ inverter.setpoint = 0 - 2000


-----------------------------------------------------------------------------
(* The setpoint written to start or adjust charging, for the values
   max_charge_power and a requested power can have: neither config.update
   (api_config) nor load_config checks the value *)

\* the powers range over PowerStep * (-MaxPowerSteps .. MaxPowerSteps)
PowerStep == 390
MaxPowerSteps == 10
PowerValues == {k * PowerStep : k \in (0 - MaxPowerSteps)..MaxPowerSteps}

InitSetpoint ==
    /\ Constructed
    /\ fcall \in {[fn |-> fn, args |-> [power |-> power], applied |-> FALSE, result |-> None] :
                    fn \in {"controller_loop", "start_charging", "adjust_power"},
                    power \in PowerValues}

\* the write of charge_power, with whether the register took it
WriteSetpoint(charge_power) ==
    /\ \E outcome \in Outcomes(WriteBatteryPower(charge_power)) :
         /\ inverter' = write_battery_power(inverter, charge_power, outcome)
         /\ fcall' = [fcall EXCEPT !.applied = TRUE,
                                   !.result = IF outcome = "ok" THEN Some(charge_power) ELSE None]
    /\ UNCHANGED <<now, controller_running, battery_soc, mode, control_mode,
                   charging_plan, auto_optimization_enabled, loop, req,
                   reader, ucp, obs, hourly_consumption, kostal_api>>

\* controller_loop, lines 1101-1102, with max_charge_power = args.power
LoopWritesSetpoint ==
    /\ fcall.fn = "controller_loop"
    /\ ~fcall.applied
    /\ WriteSetpoint(auto_charge_power(fcall.args.power))

\* api_control start_charging, lines 436-438, with the requested power
StartWritesSetpoint ==
    /\ fcall.fn = "start_charging"
    /\ ~fcall.applied
    /\ WriteSetpoint(manual_charge_power(fcall.args.power))

\* api_adjust_power, lines 582-583, with the requested power
AdjustWritesSetpoint ==
    /\ fcall.fn = "adjust_power"
    /\ ~fcall.applied
    /\ WriteSetpoint(manual_charge_power(fcall.args.power))

NextSetpoint ==
    \/ LoopWritesSetpoint
    \/ StartWritesSetpoint
    \/ AdjustWritesSetpoint

SpecSetpoint == InitSetpoint /\ [][NextSetpoint]_vars

\* a setpoint has been written
SetpointWritten == fcall.applied /\ fcall.result # None

\* C35: every setpoint written to start or adjust charging is minus the
\* absolute value of the configured or requested power, so it is never
\* positive, whatever integer max_charge_power or the requested power is.
C35_SetpointNeverPositive ==
    SetpointWritten =>
        /\ inverter.setpoint = 0 - Abs(fcall.args.power)
        /\ inverter.setpoint <= 0

\* what does hold: it is so for the powers an operator requests, and for the
\* tick when max_charge_power is not negative
RequestedSetpointNeverPositive ==
    (SetpointWritten /\ (fcall.fn # "controller_loop" \/ fcall.args.power >= 0)) =>
        /\ inverter.setpoint = 0 - Abs(fcall.args.power)
        /\ inverter.setpoint <= 0

\* the tick has written a discharge setpoint
TickWroteDischarge ==
    /\ SetpointWritten
    /\ fcall.fn = "controller_loop"
    /\ fcall.args.power = 0 - 3900
    /\ inverter.setpoint = 3900


-----------------------------------------------------------------------------
(* The end of automatic charging: ticks while the battery fills, then ticks
   that read a full battery for good, with the operator switching the
   automation and asking for auto_mode in between *)

\* the SoC sensor once the battery is full: auto_charge_below_soc is reached
FullResponses == {[status |-> 200, state |-> NumState(auto_charge_below_soc)]}

\* the charge conditions have ended: from now on the sensor reads a full battery
ConditionsEnded == now = MaxNow

\* a tick of the loop
LoopTick == TickOf(IF ConditionsEnded THEN FullResponses ELSE SocResponses)

NextStop ==
    \/ Startup
    \/ LoopTick
    \/ ToggleAutomation
    \/ AutoMode

\* the loop thread keeps running: `while True` with a sleep of control_interval
SpecStop == Init /\ [][NextStop]_vars /\ WF_vars(Startup) /\ WF_vars(LoopTick)

NextStopUnattended ==
    \/ Startup
    \/ LoopTick

\* the same with no operator
SpecStopUnattended ==
    Init /\ [][NextStopUnattended]_vars /\ WF_vars(Startup) /\ WF_vars(LoopTick)

\* the loop has taken its stop branch: setpoint 0, external control off, mode
\* and control_mode back to automatic and internal
LoopStopped ==
    /\ loop.to = "stop"
    /\ mode = "automatic"
    /\ control_mode = "internal"

\* C36: once the mode is auto_charging and the charge conditions have ended
\* for good, the loop eventually writes setpoint 0, disables external control
\* and sets the mode back, whatever toggle_automation and auto_mode requests
\* arrive in between.
C36_AutoChargingEnds ==
    (mode = "auto_charging" /\ ConditionsEnded) ~> LoopStopped

\* the tick that follows the end of the conditions finds the automation off
ChargingWithAutomationOff ==
    /\ mode = "auto_charging"
    /\ ConditionsEnded
    /\ ~controller_running
    /\ inverter = [extern |-> TRUE, setpoint |-> 0 - max_charge_power]



-----------------------------------------------------------------------------
(* The loop running on past the end of the stored plan *)

\* the clock of the runs that outlast the plan
MaxLateNow == 10800

\* controller_loop, one iteration, on a clock that goes on past the planned end
LateTick == TickTill(SocResponses, MaxLateNow)

NextExpiry == Startup \/ LateTick

SpecExpiry == Init /\ [][NextExpiry]_vars

\* the step is an iteration of the loop whose rules were evaluated
RulesEvaluated == loop.pc = "tick" /\ obs'.tick.evaluated /\ obs' # obs

\* the rules answered (True, 'Planned charging time reached'): they said charge
\* and the SoC the tick read is not below the safety minimum
PlannedTimeReached ==
    /\ obs'.tick.should_charge
    /\ float(or_zero(obs'.tick.sensor)) >= auto_safety_soc

\* the clock of the iteration is later than the planned end stored when the
\* rules are evaluated
PlanExpired ==
    /\ charging_plan'.planned_end # None
    /\ now > fromisoformat(charging_plan'.planned_end)

\* C37: in an iteration of the loop whose clock is later than the stored
\* planned_end, the rules do not answer 'charge, planned time reached', also
\* when the recomputations since found no new end and left the old plan.
C37_NoPlannedChargeAfterEnd ==
    [][(RulesEvaluated /\ PlanExpired) => ~PlannedTimeReached]_vars


-----------------------------------------------------------------------------
(* The recorded mode, the recorded control mode and the commands sent *)

\* control_mode is 'external' exactly in the charging modes and 'internal'
\* exactly in mode 'automatic'
ModeMatchesControl ==
    /\ (control_mode = "external") <=> (mode \in ChargingModes)
    /\ (control_mode = "internal") <=> (mode = "automatic")

\* the calls the step issued to the inverter, by the loop or by a request
StepCalls == loop'.calls \o req'.calls

\* the calls are setpoint 0 and external control off
StopCommands(calls) ==
    /\ Len(calls) = 2
    /\ calls[1].fn = "write_battery_power" /\ calls[1].watts = 0
    /\ calls[2].fn = "set_external_control" /\ ~calls[2].enabled

\* a step that ends in mode 'automatic' either sent setpoint 0 and external
\* control off, or sent nothing and found the mode 'automatic' already
AutomaticOnlyAfterStop ==
    mode' = "automatic" =>
        \/ StopCommands(StepCalls)
        \/ StepCalls = <<>> /\ mode = "automatic"

\* C38: control_mode is 'external' exactly when mode is manual_charging or
\* auto_charging and 'internal' exactly when mode is automatic, and mode is
\* 'automatic' only when the last commands sent to the inverter were setpoint
\* 0 and external control off, or none were sent.
C38_ModeControlAndCommandsAgree ==
    [](ModeMatchesControl) /\ [][AutomaticOnlyAfterStop]_vars

\* the recorded mode is 'automatic', the recorded control mode 'external' and
\* the inverter charges under external control
AutomaticWhileCharging ==
    /\ mode = "automatic" /\ control_mode = "external"
    /\ inverter.extern /\ inverter.setpoint < 0


\* the session the object holds and the session file are what they were when
\* the login() of this call began
SessionAsBeforeLogin ==
    /\ kostal_api.session_id = kostal_api.before.session_id
    /\ kostal_api.headers = kostal_api.before.headers
    /\ kostal_api.session_file = kostal_api.before.session_file

\* C39: whenever login() has returned False, that call has left neither
\* session_id nor the Authorization header set and has written no session id
\* to the session file.
C39_FailedLoginLeavesNoSession ==
    kostal_api.login = "false" => SessionAsBeforeLogin

\* login() returned False after auth/me refused the session it had just stored
FailedLoginKeptSession ==
    /\ kostal_api.login = "false"
    /\ kostal_api.before.headers = None
    /\ kostal_api.headers # None
    /\ kostal_api.session_file = kostal_api.session_id


\* the rows the step wrote that the table did not hold before
RowsWritten == hourly_consumption' \ hourly_consumption

\* the row is one of the 24 hours of the day
RowOfDay(row, day_entry) ==
    /\ fromisoformat(row.timestamp) >= midnight(day_entry.date)
    /\ fromisoformat(row.timestamp) < midnight(day_entry.date) + Day

\* C40: in import_detailed_history a day counted in skipped_days contributes
\* no rows: every row written belongs to a day that was not skipped, and
\* imported_hours is 24 times the number of days not skipped.
C40_SkippedDayWritesNothing ==
    [][fcall'.fn = "import_detailed_history" =>
          LET days == fcall'.args.daily_data
              result == fcall'.result
          IN  /\ result.imported_hours = 24 * (Len(days) - result.skipped_days)
              /\ \A row \in RowsWritten :
                    \E i \in 1..Len(days) :
                       /\ RowOfDay(row, days[i])
                       /\ Len(days[i].hours) = 24 /\ days[i].text = {}]_vars

\* an import counted its only day as skipped and left rows of that day in the
\* table
SkippedDayLeftRows ==
    /\ fcall.fn = "import_detailed_history"
    /\ Len(ImportedDays) = 1
    /\ fcall.result.skipped_days = 1
    /\ fcall.result.imported_hours > 0
    /\ \E row \in hourly_consumption : RowOfDay(row, ImportedDays[1])

=============================================================================
